---------------------------- MODULE Spec2Model ----------------------------
(***************************************************************************)
(* A model of the request-orchestration core of creatorbrief-ai:           *)
(*   src/lib/ai-service.ts          AIService, AIServiceWithCache          *)
(*   src/workflows/generate-brief.ts generateCreatorBrief and its helpers  *)
(*                                                                         *)
(* JavaScript strings are sequences of UTF-16 code units (naturals).       *)
(* An optional value (undefined in the source) is <<>>, a present value v  *)
(* is <<v>>.  Time is Date.now() in milliseconds.  The handlers are async  *)
(* functions on one event loop: the code between two awaits runs without   *)
(* interleaving, so each action is one such run.                           *)
(***************************************************************************)
EXTENDS Integers, Sequences, FiniteSets, TLC

VARIABLES
  now,          \* Date.now(), in milliseconds
  provider,     \* AIService.config.provider, fixed at construction
  cache,        \* AIServiceWithCache.cache: Map<string, {data, timestamp}>
  rateLimiter,  \* AIServiceWithCache.rateLimiter: Map<string, number[]>
  inv,          \* the invocations in flight: one record per invocation slot
  last,         \* the invocation the latest step finished, as its caller saw it
  log,          \* history: per rate-limit key, the provider calls made for it
  done          \* history: the latest workflow invocation that obtained a text

vars == <<now, provider, cache, rateLimiter, inv, last, log, done>>

---------------------------------------------------------------------------
(* Bounds of the model.                                                    *)

\* invocation slots: how many invocations can be in flight at once
NumProcs == 2
\* the clock stops after MaxTicks steps
MaxTicks == 2
\* provider calls made with a rate-limit key, by sequential callers
MaxLog == 11
\* provider calls made with a rate-limit key, by concurrent callers
MaxCalls == 2
\* provider calls with a rate-limit key that fail
MaxFailures == 1

---------------------------------------------------------------------------
(* Program constants.                                                      *)

\* ai-service.ts:188 and :194, the cache TTL and the rate window: 3600000 ms
ONE_HOUR == 3600000
\* ai-service.ts:200, "Allow max 10 requests per hour per key"
MAX_REQUESTS == 10

\* the clock advances in steps of half an hour: an entry is looked up less
\* than one hour, exactly one hour and more than one hour after it was stored
TickMs == ONE_HOUR \div 2
Procs == 1..NumProcs

---------------------------------------------------------------------------
(* Optional values and strings.                                            *)

None == <<>>
Some(v) == <<v>>
IsSome(o) == o # <<>>
The(o) == o[1]

\* JavaScript truthiness of an optional string: undefined and "" are falsy
Truthy(o) == IsSome(o) /\ The(o) # <<>>

\* the code units String.prototype.trim removes (WhiteSpace and LineTerminator)
WhiteSpace ==
  {9, 10, 11, 12, 13, 32, 160, 5760, 8232, 8233, 8239, 8287, 12288, 65279}
    \cup (8192..8202)

RECURSIVE TrimStart(_)
TrimStart(s) ==
  IF s # <<>> /\ Head(s) \in WhiteSpace THEN TrimStart(Tail(s)) ELSE s

RECURSIVE TrimEnd(_)
TrimEnd(s) ==
  IF s # <<>> /\ s[Len(s)] \in WhiteSpace
    THEN TrimEnd(SubSeq(s, 1, Len(s) - 1))
    ELSE s

\* String.prototype.trim
Trim(s) == TrimEnd(TrimStart(s))

\* whether sub occurs in s at position i (1-based)
MatchAt(s, sub, i) ==
  /\ i >= 1
  /\ i + Len(sub) - 1 <= Len(s)
  /\ \A k \in 1..Len(sub) : s[i + k - 1] = sub[k]

\* String.prototype.includes
Includes(s, sub) == \E i \in 1..(Len(s) + 1) : MatchAt(s, sub, i)

---------------------------------------------------------------------------
(* The literals of ai-service.ts.                                          *)

\* sRateLimitExceeded: the text  Rate limit exceeded. Please try again later.
sRateLimitExceeded ==
  <<82, 97, 116, 101, 32, 108, 105, 109, 105, 116, 32, 101, 120, 99, 101, 101, 100, 101, 100, 46,
    32, 80, 108, 101, 97, 115, 101, 32, 116, 114, 121, 32, 97, 103, 97, 105, 110, 32, 108, 97,
    116, 101, 114, 46>>
\* sAIServiceFailed: the text  AI service failed: 
sAIServiceFailed == <<65, 73, 32, 115, 101, 114, 118, 105, 99, 101, 32, 102, 97, 105, 108, 101, 100, 58, 32>>
\* sUnknownError: the text  Unknown error occurred
sUnknownError ==
  <<85, 110, 107, 110, 111, 119, 110, 32, 101, 114, 114, 111, 114, 32, 111, 99, 99, 117, 114, 114,
    101, 100>>
\* sNoResponseOpenAI: the text  No response generated from OpenAI
sNoResponseOpenAI ==
  <<78, 111, 32, 114, 101, 115, 112, 111, 110, 115, 101, 32, 103, 101, 110, 101, 114, 97, 116, 101,
    100, 32, 102, 114, 111, 109, 32, 79, 112, 101, 110, 65, 73>>
\* sUnexpectedAnthropic: the text  Unexpected response type from Anthropic
sUnexpectedAnthropic ==
  <<85, 110, 101, 120, 112, 101, 99, 116, 101, 100, 32, 114, 101, 115, 112, 111, 110, 115, 101, 32,
    116, 121, 112, 101, 32, 102, 114, 111, 109, 32, 65, 110, 116, 104, 114, 111, 112, 105, 99>>
\* sNoResponseGemini: the text  No response generated from Gemini
sNoResponseGemini ==
  <<78, 111, 32, 114, 101, 115, 112, 111, 110, 115, 101, 32, 103, 101, 110, 101, 114, 97, 116, 101,
    100, 32, 102, 114, 111, 109, 32, 71, 101, 109, 105, 110, 105>>
\* the TypeError of reading .type of response.content[0] when content is empty
\* sAnthropicTypeError: the text  Cannot read properties of undefined (reading 'type')
sAnthropicTypeError ==
  <<67, 97, 110, 110, 111, 116, 32, 114, 101, 97, 100, 32, 112, 114, 111, 112, 101, 114, 116, 105,
    101, 115, 32, 111, 102, 32, 117, 110, 100, 101, 102, 105, 110, 101, 100, 32, 40, 114, 101, 97,
    100, 105, 110, 103, 32, 39, 116, 121, 112, 101, 39, 41>>
\* sSystemPrompt: 115 code units, starting  You are a professional marketing strategist. Always respond 
sSystemPrompt ==
  <<89, 111, 117, 32, 97, 114, 101, 32, 97, 32, 112, 114, 111, 102, 101, 115, 115, 105, 111, 110,
    97, 108, 32, 109, 97, 114, 107, 101, 116, 105, 110, 103, 32, 115, 116, 114, 97, 116, 101, 103,
    105, 115, 116, 46, 32, 65, 108, 119, 97, 121, 115, 32, 114, 101, 115, 112, 111, 110, 100, 32,
    119, 105, 116, 104, 32, 118, 97, 108, 105, 100, 32, 74, 83, 79, 78, 32, 111, 110, 108, 121,
    44, 32, 110, 111, 32, 97, 100, 100, 105, 116, 105, 111, 110, 97, 108, 32, 102, 111, 114, 109,
    97, 116, 116, 105, 110, 103, 32, 111, 114, 32, 116, 101, 120, 116, 46>>

---------------------------------------------------------------------------
(* AIService: the provider adapter.                                        *)
(*                                                                         *)
(* What the backend answers to one request:                                *)
(*   [ok |-> FALSE, message |-> m]  the SDK call threw; m is <<text>> for  *)
(*                                  an Error, <<>> for any other value     *)
(*   [ok |-> TRUE, type |-> t, text |-> s]   a response whose first        *)
(*       content item has type t: "text" carrying s, "other" (a tool call, *)
(*       a refusal: no text content), or "none" (no content item at all)   *)

Providers == {"openai", "anthropic", "gemini"}

Thrown(m) == [ok |-> FALSE, message |-> m]
Answer(t, s) == [ok |-> TRUE, type |-> t, text |-> s]

\* the outcome of a run: a returned value or a thrown Error's message
Return(v) == [threw |-> FALSE, value |-> v]
Throw(m) == [threw |-> TRUE, value |-> m]

generateOpenAICompletion(resp) ==
  LET content == IF resp.type = "text" THEN Some(resp.text) ELSE None
  IN IF ~Truthy(content)
       THEN Throw(sNoResponseOpenAI)
       ELSE Return(Trim(The(content)))

generateAnthropicCompletion(resp) ==
  IF resp.type = "none" THEN Throw(sAnthropicTypeError)
  ELSE IF resp.type # "text" THEN Throw(sUnexpectedAnthropic)
  ELSE Return(Trim(resp.text))

generateGeminiCompletion(resp) ==
  LET content == IF resp.type = "text" THEN resp.text ELSE <<>>
  IN IF content = <<>>
       THEN Throw(sNoResponseGemini)
       ELSE Return(Trim(content))

\* generateCompletion: dispatch on the configured provider; whatever is thrown
\* inside is rethrown as Error(`AI service failed: ${message}`)
generateCompletion(prov, resp) ==
  LET inner ==
        IF ~resp.ok
          THEN Throw(IF IsSome(resp.message) THEN The(resp.message)
                                             ELSE sUnknownError)
        ELSE IF prov = "openai" THEN generateOpenAICompletion(resp)
        ELSE IF prov = "anthropic" THEN generateAnthropicCompletion(resp)
        ELSE generateGeminiCompletion(resp)
  IN IF inner.threw THEN Throw(sAIServiceFailed \o inner.value) ELSE inner

\* What each adapter sends to its backend for a prompt: the argument of
\* openai.chat.completions.create (lines 71-85), of anthropic.messages.create
\* (lines 96-106) and of model.generateContent (lines 125-128), without the
\* model and the sampling parameters
\* sBlankLine: the text  \n\n
sBlankLine == <<10, 10>>
openAIRequest(prompt) ==
  [messages |-> <<[role |-> "system", content |-> sSystemPrompt],
                  [role |-> "user", content |-> prompt]>>]

anthropicRequest(prompt) ==
  [messages |-> <<[role |-> "user", content |-> prompt]>>]

geminiRequest(prompt) ==
  [fullPrompt |-> sSystemPrompt \o sBlankLine \o prompt]

\* the request generateCompletion has the configured provider's adapter send
backendRequest(prov, prompt) ==
  IF prov = "openai" THEN openAIRequest(prompt)
  ELSE IF prov = "anthropic" THEN anthropicRequest(prompt)
  ELSE geminiRequest(prompt)

---------------------------------------------------------------------------
(* AIServiceWithCache: the cache and the rate limiter.                     *)

\* (mutant) an entry stored exactly one hour ago still counts as valid
isCacheValid_inclusive(key, t) ==
  /\ key \in DOMAIN cache
  /\ t - cache[key].timestamp <= ONE_HOUR

\* isCacheValid(key), with Date.now() = t
isCacheValid(key, t) ==
  /\ key \in DOMAIN cache
  /\ t - cache[key].timestamp < ONE_HOUR

\* this.rateLimiter.get(key) || []
requestsOf(key) == IF key \in DOMAIN rateLimiter THEN rateLimiter[key] ELSE <<>>

\* (mutant) every stored timestamp counts, however old
isRateLimited_neverForgets(key, t) ==
  Len(IF key \in DOMAIN rateLimiter THEN rateLimiter[key] ELSE <<>>)
    >= MAX_REQUESTS

\* (mutant) the limit is reached one request late
isRateLimited_offByOne(key, t) ==
  LET requests == IF key \in DOMAIN rateLimiter THEN rateLimiter[key] ELSE <<>>
      recentRequests == {i \in 1..Len(requests) : requests[i] > t - ONE_HOUR}
  IN Cardinality(recentRequests) > MAX_REQUESTS

\* isRateLimited(key), with Date.now() = t: the stored array is filtered into
\* a new array and left as it is
isRateLimited(key, t) ==
  LET requests == requestsOf(key)
      oneHourAgo == t - ONE_HOUR
      recentRequests == {i \in 1..Len(requests) : requests[i] > oneHourAgo}
  IN Cardinality(recentRequests) >= MAX_REQUESTS

\* Map.prototype.set
MapSet(m, k, v) == [x \in DOMAIN m \cup {k} |-> IF x = k THEN v ELSE m[x]]

\* (mutant) the new timestamp replaces the stored ones
updateRateLimit_overwrites(key, t) == MapSet(rateLimiter, key, <<t>>)

\* updateRateLimit(key), with Date.now() = t: the map after the push
updateRateLimit(key, t) == MapSet(rateLimiter, key, Append(requestsOf(key), t))

\* this.cache.set(cacheKey, { data: result, timestamp: Date.now() })
cacheSet(key, result, t) == MapSet(cache, key, [data |-> result, timestamp |-> t])

---------------------------------------------------------------------------
(* generate-brief.ts: the literals.                                        *)

\* sDefaultGoals: the text  Increase brand awareness and drive conversions
sDefaultGoals ==
  <<73, 110, 99, 114, 101, 97, 115, 101, 32, 98, 114, 97, 110, 100, 32, 97, 119, 97, 114, 101,
    110, 101, 115, 115, 32, 97, 110, 100, 32, 100, 114, 105, 118, 101, 32, 99, 111, 110, 118, 101,
    114, 115, 105, 111, 110, 115>>
\* sDefaultBudget: the text  Not specified
sDefaultBudget == <<78, 111, 116, 32, 115, 112, 101, 99, 105, 102, 105, 101, 100>>
\* sInstagram: the text  Instagram
sInstagram == <<73, 110, 115, 116, 97, 103, 114, 97, 109>>
\* sTikTok: the text  TikTok
sTikTok == <<84, 105, 107, 84, 111, 107>>
\* sDefaultTimeframe: the text  30 days
sDefaultTimeframe == <<51, 48, 32, 100, 97, 121, 115>>
\* sProductRequired: the text  Product description is required and cannot be empty
sProductRequired ==
  <<80, 114, 111, 100, 117, 99, 116, 32, 100, 101, 115, 99, 114, 105, 112, 116, 105, 111, 110, 32,
    105, 115, 32, 114, 101, 113, 117, 105, 114, 101, 100, 32, 97, 110, 100, 32, 99, 97, 110, 110,
    111, 116, 32, 98, 101, 32, 101, 109, 112, 116, 121>>
\* sAudienceRequired: the text  Target audience is required and cannot be empty
sAudienceRequired ==
  <<84, 97, 114, 103, 101, 116, 32, 97, 117, 100, 105, 101, 110, 99, 101, 32, 105, 115, 32, 114,
    101, 113, 117, 105, 114, 101, 100, 32, 97, 110, 100, 32, 99, 97, 110, 110, 111, 116, 32, 98,
    101, 32, 101, 109, 112, 116, 121>>
\* sProductTooLong: the text  Product description must be less than 1000 characters
sProductTooLong ==
  <<80, 114, 111, 100, 117, 99, 116, 32, 100, 101, 115, 99, 114, 105, 112, 116, 105, 111, 110, 32,
    109, 117, 115, 116, 32, 98, 101, 32, 108, 101, 115, 115, 32, 116, 104, 97, 110, 32, 49, 48,
    48, 48, 32, 99, 104, 97, 114, 97, 99, 116, 101, 114, 115>>
\* sAudienceTooLong: the text  Target audience must be less than 500 characters
sAudienceTooLong ==
  <<84, 97, 114, 103, 101, 116, 32, 97, 117, 100, 105, 101, 110, 99, 101, 32, 109, 117, 115, 116,
    32, 98, 101, 32, 108, 101, 115, 115, 32, 116, 104, 97, 110, 32, 53, 48, 48, 32, 99, 104,
    97, 114, 97, 99, 116, 101, 114, 115>>
\* sRateLimitMarker: the text  Rate limit exceeded
sRateLimitMarker == <<82, 97, 116, 101, 32, 108, 105, 109, 105, 116, 32, 101, 120, 99, 101, 101, 100, 101, 100>>
\* sJSONMarker: the text  JSON
sJSONMarker == <<74, 83, 79, 78>>
\* sTooManyRequests: the text  Too many requests. Please try again in an hour.
sTooManyRequests ==
  <<84, 111, 111, 32, 109, 97, 110, 121, 32, 114, 101, 113, 117, 101, 115, 116, 115, 46, 32, 80,
    108, 101, 97, 115, 101, 32, 116, 114, 121, 32, 97, 103, 97, 105, 110, 32, 105, 110, 32, 97,
    110, 32, 104, 111, 117, 114, 46>>
\* sFailedToProcess: the text  Failed to process AI response. Please try again.
sFailedToProcess ==
  <<70, 97, 105, 108, 101, 100, 32, 116, 111, 32, 112, 114, 111, 99, 101, 115, 115, 32, 65, 73,
    32, 114, 101, 115, 112, 111, 110, 115, 101, 46, 32, 80, 108, 101, 97, 115, 101, 32, 116, 114,
    121, 32, 97, 103, 97, 105, 110, 46>>
\* sFailedToGenerate: the text  Failed to generate creator brief: 
sFailedToGenerate ==
  <<70, 97, 105, 108, 101, 100, 32, 116, 111, 32, 103, 101, 110, 101, 114, 97, 116, 101, 32, 99,
    114, 101, 97, 116, 111, 114, 32, 98, 114, 105, 101, 102, 58, 32>>
\* sInvalidJSON: the text  Invalid JSON response from AI service
sInvalidJSON ==
  <<73, 110, 118, 97, 108, 105, 100, 32, 74, 83, 79, 78, 32, 114, 101, 115, 112, 111, 110, 115,
    101, 32, 102, 114, 111, 109, 32, 65, 73, 32, 115, 101, 114, 118, 105, 99, 101>>
\* sMustBeObject: the text  AI response must be a valid object
sMustBeObject ==
  <<65, 73, 32, 114, 101, 115, 112, 111, 110, 115, 101, 32, 109, 117, 115, 116, 32, 98, 101, 32,
    97, 32, 118, 97, 108, 105, 100, 32, 111, 98, 106, 101, 99, 116>>
\* sMissingField: the text  Missing required field in AI response: 
sMissingField ==
  <<77, 105, 115, 115, 105, 110, 103, 32, 114, 101, 113, 117, 105, 114, 101, 100, 32, 102, 105, 101,
    108, 100, 32, 105, 110, 32, 65, 73, 32, 114, 101, 115, 112, 111, 110, 115, 101, 58, 32>>
\* sMustBeArray: the text   must be a non-empty array
sMustBeArray ==
  <<32, 109, 117, 115, 116, 32, 98, 101, 32, 97, 32, 110, 111, 110, 45, 101, 109, 112, 116, 121,
    32, 97, 114, 114, 97, 121>>
\* sCreativeDirectionObject: the text  creativeDirection must be an object
sCreativeDirectionObject ==
  <<99, 114, 101, 97, 116, 105, 118, 101, 68, 105, 114, 101, 99, 116, 105, 111, 110, 32, 109, 117,
    115, 116, 32, 98, 101, 32, 97, 110, 32, 111, 98, 106, 101, 99, 116>>
\* sDeliverablesObject: the text  deliverables must be an object
sDeliverablesObject ==
  <<100, 101, 108, 105, 118, 101, 114, 97, 98, 108, 101, 115, 32, 109, 117, 115, 116, 32, 98, 101,
    32, 97, 110, 32, 111, 98, 106, 101, 99, 116>>
\* sKpisObject: the text  kpis must be an object
sKpisObject ==
  <<107, 112, 105, 115, 32, 109, 117, 115, 116, 32, 98, 101, 32, 97, 110, 32, 111, 98, 106, 101,
    99, 116>>
\* sBriefPrefix: the text  brief_
sBriefPrefix == <<98, 114, 105, 101, 102, 95>>
\* sCommaSpace: the text  , 
sCommaSpace == <<44, 32>>

\* the property names of the brief and of the input
\* sCampaignTitle: the text  campaignTitle
sCampaignTitle == <<99, 97, 109, 112, 97, 105, 103, 110, 84, 105, 116, 108, 101>>
\* sObjective: the text  objective
sObjective == <<111, 98, 106, 101, 99, 116, 105, 118, 101>>
\* sPlatforms: the text  platforms
sPlatforms == <<112, 108, 97, 116, 102, 111, 114, 109, 115>>
\* sContentFormats: the text  contentFormats
sContentFormats == <<99, 111, 110, 116, 101, 110, 116, 70, 111, 114, 109, 97, 116, 115>>
\* sMessagingPillars: the text  messagingPillars
sMessagingPillars == <<109, 101, 115, 115, 97, 103, 105, 110, 103, 80, 105, 108, 108, 97, 114, 115>>
\* sCreativeDirection: the text  creativeDirection
sCreativeDirection == <<99, 114, 101, 97, 116, 105, 118, 101, 68, 105, 114, 101, 99, 116, 105, 111, 110>>
\* sDeliverables: the text  deliverables
sDeliverables == <<100, 101, 108, 105, 118, 101, 114, 97, 98, 108, 101, 115>>
\* sKpis: the text  kpis
sKpis == <<107, 112, 105, 115>>
\* sProductDescription: the text  productDescription
sProductDescription == <<112, 114, 111, 100, 117, 99, 116, 68, 101, 115, 99, 114, 105, 112, 116, 105, 111, 110>>
\* sTargetAudience: the text  targetAudience
sTargetAudience == <<116, 97, 114, 103, 101, 116, 65, 117, 100, 105, 101, 110, 99, 101>>
\* sCampaignGoals: the text  campaignGoals
sCampaignGoals == <<99, 97, 109, 112, 97, 105, 103, 110, 71, 111, 97, 108, 115>>
\* sBudget: the text  budget
sBudget == <<98, 117, 100, 103, 101, 116>>
\* sTimeframe: the text  timeframe
sTimeframe == <<116, 105, 109, 101, 102, 114, 97, 109, 101>>
\* the properties of CreatorBriefOutput that parseAndValidateResponse does
\* not name
\* sMustHaveElements: the text  mustHaveElements
sMustHaveElements == <<109, 117, 115, 116, 72, 97, 118, 101, 69, 108, 101, 109, 101, 110, 116, 115>>
\* sComplianceNotes: the text  complianceNotes
sComplianceNotes == <<99, 111, 109, 112, 108, 105, 97, 110, 99, 101, 78, 111, 116, 101, 115>>
\* sHashtags: the text  hashtags
sHashtags == <<104, 97, 115, 104, 116, 97, 103, 115>>
\* sBudgetRecommendations: the text  budgetRecommendations
sBudgetRecommendations ==
  <<98, 117, 100, 103, 101, 116, 82, 101, 99, 111, 109, 109, 101, 110, 100, 97, 116, 105, 111, 110,
    115>>

\* the limits of validateInputs, generate-brief.ts:213 and :217
MAX_PRODUCT_LENGTH == 1000
MAX_AUDIENCE_LENGTH == 500

---------------------------------------------------------------------------
(* The workflow's input.  A CreatorBriefInput is a record of the seven     *)
(* fields; an optional field that is not given is None.  The destructuring *)
(* of generateCreatorBrief (lines 136-144) puts the default in its place.  *)

Defaulted(input) ==
  [productDescription |-> input.productDescription,
   targetAudience |-> input.targetAudience,
   campaignGoals |-> IF IsSome(input.campaignGoals)
                       THEN The(input.campaignGoals) ELSE sDefaultGoals,
   budget |-> IF IsSome(input.budget) THEN The(input.budget)
                                      ELSE sDefaultBudget,
   platforms |-> IF IsSome(input.platforms) THEN The(input.platforms)
                                            ELSE <<sInstagram, sTikTok>>,
   timeframe |-> IF IsSome(input.timeframe) THEN The(input.timeframe)
                                            ELSE sDefaultTimeframe,
   userId |-> input.userId]

\* (mutant) a product description of exactly 1000 code units is rejected
validateInputs_offByOne(productDescription, targetAudience) ==
  IF Trim(productDescription) = <<>> THEN Throw(sProductRequired)
  ELSE IF Trim(targetAudience) = <<>> THEN Throw(sAudienceRequired)
  ELSE IF Len(productDescription) >= MAX_PRODUCT_LENGTH
    THEN Throw(sProductTooLong)
  ELSE IF Len(targetAudience) > MAX_AUDIENCE_LENGTH
    THEN Throw(sAudienceTooLong)
  ELSE Return(<<>>)

\* validateInputs: the Error it throws, if it throws
validateInputs(productDescription, targetAudience) ==
  IF Trim(productDescription) = <<>> THEN Throw(sProductRequired)
  ELSE IF Trim(targetAudience) = <<>> THEN Throw(sAudienceRequired)
  ELSE IF Len(productDescription) > MAX_PRODUCT_LENGTH
    THEN Throw(sProductTooLong)
  ELSE IF Len(targetAudience) > MAX_AUDIENCE_LENGTH
    THEN Throw(sAudienceTooLong)
  ELSE Return(<<>>)

---------------------------------------------------------------------------
(* createCacheKey.                                                         *)

\* the four hexadecimal digits of a code unit, lower case, as JSON.stringify
\* writes them
HexDigit(d) == IF d < 10 THEN 48 + d ELSE 87 + d
Hex4(c) ==
  <<HexDigit((c \div 4096) % 16), HexDigit((c \div 256) % 16),
    HexDigit((c \div 16) % 16), HexDigit(c % 16)>>

\* JSON.stringify of one code unit inside a string (QuoteJSONString); the
\* inputs of this model hold no surrogate code units
QuoteUnit(c) ==
  IF c = 34 THEN <<92, 34>>
  ELSE IF c = 92 THEN <<92, 92>>
  ELSE IF c = 8 THEN <<92, 98>>
  ELSE IF c = 9 THEN <<92, 116>>
  ELSE IF c = 10 THEN <<92, 110>>
  ELSE IF c = 12 THEN <<92, 102>>
  ELSE IF c = 13 THEN <<92, 114>>
  ELSE IF c < 32 THEN <<92, 117>> \o Hex4(c)
  ELSE <<c>>

\* the code units i..j of s, quoted; the range is halved, which keeps the
\* evaluation shallow on a long string
RECURSIVE QuoteRange(_, _, _)
QuoteRange(s, i, j) ==
  IF i > j THEN <<>>
  ELSE IF i = j THEN QuoteUnit(s[i])
  ELSE LET m == (i + j) \div 2
       IN QuoteRange(s, i, m) \o QuoteRange(s, m + 1, j)

\* JSON.stringify of a string
StringifyString(s) == <<34>> \o QuoteRange(s, 1, Len(s)) \o <<34>>

RECURSIVE StringifyItems(_, _)
StringifyItems(a, i) ==
  IF i > Len(a) THEN <<>>
  ELSE (IF i > 1 THEN <<44>> ELSE <<>>) \o StringifyString(a[i])
         \o StringifyItems(a, i + 1)

\* JSON.stringify of an array of strings
StringifyArray(a) == <<91>> \o StringifyItems(a, 1) \o <<93>>

\* "name":
Member(name) == StringifyString(name) \o <<58>>

\* JSON.stringify(inputs) of the object built at lines 150-157, in the order
\* of its properties
keyData(d) ==
  <<123>> \o Member(sProductDescription) \o StringifyString(d.productDescription)
    \o <<44>> \o Member(sTargetAudience) \o StringifyString(d.targetAudience)
    \o <<44>> \o Member(sCampaignGoals) \o StringifyString(d.campaignGoals)
    \o <<44>> \o Member(sBudget) \o StringifyString(d.budget)
    \o <<44>> \o Member(sPlatforms) \o StringifyArray(d.platforms)
    \o <<44>> \o Member(sTimeframe) \o StringifyString(d.timeframe)
    \o <<125>>

\* A 32-bit integer is the pair <<hi, lo>> of the 16-bit halves of its
\* two's-complement bits.  One round of the loop of lines 235-239:
\*   hash = ((hash << 5) - hash) + char;  hash = hash & hash
\* which is 31 * hash + char, wrapped to 32 bits
HashStep(h, char) ==
  LET lo == h[2] * 31 + char
      hi == h[1] * 31 + (lo \div 65536)
  IN <<hi % 65536, lo % 65536>>

\* the loop over the code units i..j of s, entered with hash = h, in order:
\* the first half of the range, then the second half entered with the hash
\* the first half left (the test makes the first half be computed first)
RECURSIVE HashRange(_, _, _, _)
HashRange(s, i, j, h) ==
  IF i > j THEN h
  ELSE IF i = j THEN HashStep(h, s[i])
  ELSE LET m == (i + j) \div 2
           left == HashRange(s, i, m, h)
       IN IF left \in Seq(Nat) THEN HashRange(s, m + 1, j, left) ELSE left

\* the hash of the string s
Hash(s) == HashRange(s, 1, Len(s), <<0, 0>>)

\* the decimal digits of a natural number
RECURSIVE Decimal(_)
Decimal(n) ==
  IF n < 10 THEN <<48 + n>> ELSE Decimal(n \div 10) \o <<48 + (n % 10)>>

\* `${Math.abs(hash)}` of the 32-bit integer h: the magnitude of -2^31 is
\* 2147483648, one more than the largest 32-bit integer
\* sTwoTo31: the text  2147483648
sTwoTo31 == <<50, 49, 52, 55, 52, 56, 51, 54, 52, 56>>
AbsDecimal(h) ==
  IF h[1] < 32768 THEN Decimal(h[1] * 65536 + h[2])
  ELSE IF h = <<32768, 0>> THEN sTwoTo31
  ELSE IF h[2] = 0 THEN Decimal((65536 - h[1]) * 65536)
  ELSE Decimal((65535 - h[1]) * 65536 + (65536 - h[2]))

\* (mutant) the caller's identity is part of the key
createCacheKey_perUser(d) ==
  sBriefPrefix
    \o AbsDecimal(Hash(keyData(d) \o (IF IsSome(d.userId)
                                        THEN The(d.userId) ELSE <<>>)))

\* createCacheKey, of the defaulted input d
createCacheKey(d) ==
  sBriefPrefix \o AbsDecimal(Hash(keyData(d)))

---------------------------------------------------------------------------
(* sanitizeInput and buildPrompt.                                          *)

\* s with every code unit i of a..b replaced by Unit(i); the range is halved,
\* which keeps the evaluation shallow on a long string
RECURSIVE MapRange(_, _, _)
MapRange(Unit(_), a, b) ==
  IF a > b THEN <<>>
  ELSE IF a = b THEN Unit(a)
  ELSE LET m == (a + b) \div 2
       IN MapRange(Unit, a, m) \o MapRange(Unit, m + 1, b)

\* .replace(/[<>]/g, '')
RemoveAngles(s) ==
  LET Unit(i) == IF s[i] \in {60, 62} THEN <<>> ELSE <<s[i]>>
  IN MapRange(Unit, 1, Len(s))

\* .replace(/\n+/g, ' '): each maximal run of line feeds becomes one space
CollapseNewlines(s) ==
  LET Unit(i) == IF s[i] # 10 THEN <<s[i]>>
                 ELSE IF i > 1 /\ s[i - 1] = 10 THEN <<>>
                 ELSE <<32>>
  IN MapRange(Unit, 1, Len(s))

\* .replace(/"/g, '\\"'): a quote becomes backslash, quote
EscapeQuotes(s) ==
  LET Unit(i) == IF s[i] = 34 THEN <<92, 34>> ELSE <<s[i]>>
  IN MapRange(Unit, 1, Len(s))

\* .replace(/\\/g, '\\\\'): a backslash becomes two backslashes
EscapeBackslashes(s) ==
  LET Unit(i) == IF s[i] = 92 THEN <<92, 92>> ELSE <<s[i]>>
  IN MapRange(Unit, 1, Len(s))

\* sanitizeInput: the five steps in the order of lines 224-228
sanitizeInput(input) ==
  EscapeBackslashes(EscapeQuotes(CollapseNewlines(RemoveAngles(Trim(input)))))

\* the least element of a set of natural numbers
Least(S) == CHOOSE x \in S : S \cap (0..(x - 1)) = {}

\* String.prototype.indexOf, 1-based; 0 if sub does not occur in s
IndexOf(s, sub) ==
  LET hits == {i \in 1..(Len(s) - Len(sub) + 1) : MatchAt(s, sub, i)}
  IN IF hits = {} THEN 0 ELSE Least(hits)

\* how many "$" stand immediately before position i of r
RECURSIVE DollarsBefore(_, _)
DollarsBefore(r, i) ==
  IF i > 1 /\ r[i - 1] = 36 THEN 1 + DollarsBefore(r, i - 1) ELSE 0

\* GetSubstitution for a string pattern (there are no captures): in the
\* replacement text r, read from the left, $$ stands for "$", $& for the
\* matched text, $` for the text before the match and $' for the text after
\* it; every other code unit stands for itself
Substitution(r, matched, before, after) ==
  LET Starts(i) ==
        /\ i >= 1
        /\ i < Len(r)
        /\ r[i] = 36
        /\ r[i + 1] \in {36, 38, 96, 39}
        /\ DollarsBefore(r, i) % 2 = 0
      Unit(i) ==
        IF Starts(i)
          THEN IF r[i + 1] = 36 THEN <<36>>
               ELSE IF r[i + 1] = 38 THEN matched
               ELSE IF r[i + 1] = 96 THEN before
               ELSE after
        ELSE IF Starts(i - 1) THEN <<>>
        ELSE <<r[i]>>
  IN MapRange(Unit, 1, Len(r))

\* String.prototype.replace(pattern, replacement) with a string pattern: the
\* first occurrence only, the replacement expanded by GetSubstitution
Replace(s, pattern, replacement) ==
  LET i == IndexOf(s, pattern)
      before == SubSeq(s, 1, i - 1)
      after == SubSeq(s, i + Len(pattern), Len(s))
  IN IF i = 0 THEN s
     ELSE before \o Substitution(replacement, pattern, before, after) \o after

\* Array.prototype.join(', ') of an array of strings
RECURSIVE JoinFrom(_, _)
JoinFrom(a, i) ==
  IF i > Len(a) THEN <<>>
  ELSE (IF i > 1 THEN sCommaSpace ELSE <<>>) \o a[i] \o JoinFrom(a, i + 1)

Join(a) == JoinFrom(a, 1)

\* sPlaceholderProduct: the text  {{productDescription}}
sPlaceholderProduct ==
  <<123, 123, 112, 114, 111, 100, 117, 99, 116, 68, 101, 115, 99, 114, 105, 112, 116, 105, 111, 110,
    125, 125>>
\* sPlaceholderAudience: the text  {{targetAudience}}
sPlaceholderAudience == <<123, 123, 116, 97, 114, 103, 101, 116, 65, 117, 100, 105, 101, 110, 99, 101, 125, 125>>
\* sPlaceholderGoals: the text  {{campaignGoals}}
sPlaceholderGoals == <<123, 123, 99, 97, 109, 112, 97, 105, 103, 110, 71, 111, 97, 108, 115, 125, 125>>
\* sPlaceholderBudget: the text  {{budget}}
sPlaceholderBudget == <<123, 123, 98, 117, 100, 103, 101, 116, 125, 125>>
\* sPlaceholderPlatforms: the text  {{platforms}}
sPlaceholderPlatforms == <<123, 123, 112, 108, 97, 116, 102, 111, 114, 109, 115, 125, 125>>
\* sPlaceholderTimeframe: the text  {{timeframe}}
sPlaceholderTimeframe == <<123, 123, 116, 105, 109, 101, 102, 114, 97, 109, 101, 125, 125>>

\* the template literal of lines 8-94
\* BRIEF_GENERATION_PROMPT_TEMPLATE: 2603 code units, starting  \n<persona>\nYou are "CreatorBrief AI," an expert viral mark
BRIEF_GENERATION_PROMPT_TEMPLATE ==
  <<10, 60, 112, 101, 114, 115, 111, 110, 97, 62, 10, 89, 111, 117, 32, 97, 114, 101, 32, 34,
    67, 114, 101, 97, 116, 111, 114, 66, 114, 105, 101, 102, 32, 65, 73, 44, 34, 32, 97, 110,
    32, 101, 120, 112, 101, 114, 116, 32, 118, 105, 114, 97, 108, 32, 109, 97, 114, 107, 101, 116,
    105, 110, 103, 32, 115, 116, 114, 97, 116, 101, 103, 105, 115, 116, 32, 119, 105, 116, 104, 32,
    49, 48, 43, 32, 121, 101, 97, 114, 115, 32, 111, 102, 32, 101, 120, 112, 101, 114, 105, 101,
    110, 99, 101, 32, 105, 110, 32, 105, 110, 102, 108, 117, 101, 110, 99, 101, 114, 32, 109, 97,
    114, 107, 101, 116, 105, 110, 103, 44, 32, 99, 111, 110, 116, 101, 110, 116, 32, 99, 114, 101,
    97, 116, 105, 111, 110, 44, 32, 97, 110, 100, 32, 98, 114, 97, 110, 100, 32, 112, 97, 114,
    116, 110, 101, 114, 115, 104, 105, 112, 115, 46, 32, 89, 111, 117, 32, 115, 112, 101, 99, 105,
    97, 108, 105, 122, 101, 32, 105, 110, 32, 99, 114, 101, 97, 116, 105, 110, 103, 32, 100, 97,
    116, 97, 45, 100, 114, 105, 118, 101, 110, 32, 99, 97, 109, 112, 97, 105, 103, 110, 32, 98,
    114, 105, 101, 102, 115, 32, 116, 104, 97, 116, 32, 109, 97, 120, 105, 109, 105, 122, 101, 32,
    101, 110, 103, 97, 103, 101, 109, 101, 110, 116, 32, 97, 110, 100, 32, 99, 111, 110, 118, 101,
    114, 115, 105, 111, 110, 32, 114, 97, 116, 101, 115, 32, 97, 99, 114, 111, 115, 115, 32, 97,
    108, 108, 32, 115, 111, 99, 105, 97, 108, 32, 109, 101, 100, 105, 97, 32, 112, 108, 97, 116,
    102, 111, 114, 109, 115, 46, 10, 60, 47, 112, 101, 114, 115, 111, 110, 97, 62, 10, 10, 60,
    105, 110, 115, 116, 114, 117, 99, 116, 105, 111, 110, 115, 62, 10, 89, 111, 117, 114, 32, 116,
    97, 115, 107, 32, 105, 115, 32, 116, 111, 32, 103, 101, 110, 101, 114, 97, 116, 101, 32, 97,
    32, 99, 111, 109, 112, 114, 101, 104, 101, 110, 115, 105, 118, 101, 32, 99, 114, 101, 97, 116,
    111, 114, 32, 99, 97, 109, 112, 97, 105, 103, 110, 32, 98, 114, 105, 101, 102, 32, 98, 97,
    115, 101, 100, 32, 101, 120, 99, 108, 117, 115, 105, 118, 101, 108, 121, 32, 111, 110, 32, 116,
    104, 101, 32, 112, 114, 111, 100, 117, 99, 116, 32, 105, 110, 102, 111, 114, 109, 97, 116, 105,
    111, 110, 32, 112, 114, 111, 118, 105, 100, 101, 100, 32, 105, 110, 32, 116, 104, 101, 32, 60,
    99, 111, 110, 116, 101, 120, 116, 62, 32, 116, 97, 103, 115, 32, 98, 101, 108, 111, 119, 46,
    32, 10, 10, 84, 104, 101, 32, 98, 114, 105, 101, 102, 32, 115, 104, 111, 117, 108, 100, 32,
    105, 110, 99, 108, 117, 100, 101, 58, 10, 49, 46, 32, 67, 97, 109, 112, 97, 105, 103, 110,
    32, 111, 98, 106, 101, 99, 116, 105, 118, 101, 115, 32, 119, 105, 116, 104, 32, 109, 101, 97,
    115, 117, 114, 97, 98, 108, 101, 32, 75, 80, 73, 115, 10, 50, 46, 32, 67, 111, 110, 116,
    101, 110, 116, 32, 102, 111, 114, 109, 97, 116, 32, 114, 101, 99, 111, 109, 109, 101, 110, 100,
    97, 116, 105, 111, 110, 115, 32, 40, 118, 105, 100, 101, 111, 44, 32, 99, 97, 114, 111, 117,
    115, 101, 108, 44, 32, 115, 116, 111, 114, 105, 101, 115, 44, 32, 101, 116, 99, 46, 41, 10,
    51, 46, 32, 80, 108, 97, 116, 102, 111, 114, 109, 45, 115, 112, 101, 99, 105, 102, 105, 99,
    32, 115, 116, 114, 97, 116, 101, 103, 105, 101, 115, 10, 52, 46, 32, 77, 101, 115, 115, 97,
    103, 105, 110, 103, 32, 112, 105, 108, 108, 97, 114, 115, 32, 97, 110, 100, 32, 107, 101, 121,
    32, 116, 97, 108, 107, 105, 110, 103, 32, 112, 111, 105, 110, 116, 115, 10, 53, 46, 32, 67,
    114, 101, 97, 116, 105, 118, 101, 32, 100, 105, 114, 101, 99, 116, 105, 111, 110, 32, 97, 110,
    100, 32, 118, 105, 115, 117, 97, 108, 32, 103, 117, 105, 100, 101, 108, 105, 110, 101, 115, 10,
    54, 46, 32, 84, 105, 109, 101, 108, 105, 110, 101, 32, 97, 110, 100, 32, 100, 101, 108, 105,
    118, 101, 114, 97, 98, 108, 101, 115, 10, 55, 46, 32, 80, 101, 114, 102, 111, 114, 109, 97,
    110, 99, 101, 32, 98, 101, 110, 99, 104, 109, 97, 114, 107, 115, 10, 10, 70, 111, 99, 117,
    115, 32, 111, 110, 32, 99, 114, 101, 97, 116, 105, 110, 103, 32, 97, 99, 116, 105, 111, 110,
    97, 98, 108, 101, 44, 32, 115, 112, 101, 99, 105, 102, 105, 99, 32, 103, 117, 105, 100, 97,
    110, 99, 101, 32, 116, 104, 97, 116, 32, 99, 114, 101, 97, 116, 111, 114, 115, 32, 99, 97,
    110, 32, 105, 109, 109, 101, 100, 105, 97, 116, 101, 108, 121, 32, 105, 109, 112, 108, 101, 109,
    101, 110, 116, 46, 10, 60, 47, 105, 110, 115, 116, 114, 117, 99, 116, 105, 111, 110, 115, 62,
    10, 10, 60, 111, 117, 116, 112, 117, 116, 95, 102, 111, 114, 109, 97, 116, 62, 10, 82, 101,
    116, 117, 114, 110, 32, 79, 78, 76, 89, 32, 97, 32, 118, 97, 108, 105, 100, 32, 74, 83,
    79, 78, 32, 111, 98, 106, 101, 99, 116, 32, 119, 105, 116, 104, 32, 116, 104, 105, 115, 32,
    101, 120, 97, 99, 116, 32, 115, 116, 114, 117, 99, 116, 117, 114, 101, 32, 40, 110, 111, 32,
    109, 97, 114, 107, 100, 111, 119, 110, 32, 102, 111, 114, 109, 97, 116, 116, 105, 110, 103, 44,
    32, 110, 111, 32, 97, 100, 100, 105, 116, 105, 111, 110, 97, 108, 32, 116, 101, 120, 116, 41,
    58, 10, 10, 123, 10, 32, 32, 34, 99, 97, 109, 112, 97, 105, 103, 110, 84, 105, 116, 108,
    101, 34, 58, 32, 34, 115, 116, 114, 105, 110, 103, 34, 44, 10, 32, 32, 34, 111, 98, 106,
    101, 99, 116, 105, 118, 101, 34, 58, 32, 34, 115, 116, 114, 105, 110, 103, 34, 44, 10, 32,
    32, 34, 112, 108, 97, 116, 102, 111, 114, 109, 115, 34, 58, 32, 91, 34, 115, 116, 114, 105,
    110, 103, 34, 93, 44, 10, 32, 32, 34, 99, 111, 110, 116, 101, 110, 116, 70, 111, 114, 109,
    97, 116, 115, 34, 58, 32, 91, 34, 115, 116, 114, 105, 110, 103, 34, 93, 44, 10, 32, 32,
    34, 109, 101, 115, 115, 97, 103, 105, 110, 103, 80, 105, 108, 108, 97, 114, 115, 34, 58, 32,
    91, 34, 115, 116, 114, 105, 110, 103, 34, 93, 44, 10, 32, 32, 34, 99, 114, 101, 97, 116,
    105, 118, 101, 68, 105, 114, 101, 99, 116, 105, 111, 110, 34, 58, 32, 123, 10, 32, 32, 32,
    32, 34, 118, 105, 115, 117, 97, 108, 83, 116, 121, 108, 101, 34, 58, 32, 34, 115, 116, 114,
    105, 110, 103, 34, 44, 10, 32, 32, 32, 32, 34, 116, 111, 110, 101, 79, 102, 86, 111, 105,
    99, 101, 34, 58, 32, 34, 115, 116, 114, 105, 110, 103, 34, 44, 10, 32, 32, 32, 32, 34,
    109, 117, 115, 116, 72, 97, 118, 101, 69, 108, 101, 109, 101, 110, 116, 115, 34, 58, 32, 91,
    34, 115, 116, 114, 105, 110, 103, 34, 93, 10, 32, 32, 125, 44, 10, 32, 32, 34, 100, 101,
    108, 105, 118, 101, 114, 97, 98, 108, 101, 115, 34, 58, 32, 123, 10, 32, 32, 32, 32, 34,
    112, 114, 105, 109, 97, 114, 121, 67, 111, 110, 116, 101, 110, 116, 34, 58, 32, 110, 117, 109,
    98, 101, 114, 44, 10, 32, 32, 32, 32, 34, 115, 116, 111, 114, 105, 101, 115, 34, 58, 32,
    110, 117, 109, 98, 101, 114, 44, 10, 32, 32, 32, 32, 34, 116, 105, 109, 101, 108, 105, 110,
    101, 34, 58, 32, 34, 115, 116, 114, 105, 110, 103, 34, 10, 32, 32, 125, 44, 10, 32, 32,
    34, 107, 112, 105, 115, 34, 58, 32, 123, 10, 32, 32, 32, 32, 34, 112, 114, 105, 109, 97,
    114, 121, 77, 101, 116, 114, 105, 99, 34, 58, 32, 34, 115, 116, 114, 105, 110, 103, 34, 44,
    10, 32, 32, 32, 32, 34, 116, 97, 114, 103, 101, 116, 69, 110, 103, 97, 103, 101, 109, 101,
    110, 116, 82, 97, 116, 101, 34, 58, 32, 34, 115, 116, 114, 105, 110, 103, 34, 44, 10, 32,
    32, 32, 32, 34, 101, 120, 112, 101, 99, 116, 101, 100, 82, 101, 97, 99, 104, 34, 58, 32,
    34, 115, 116, 114, 105, 110, 103, 34, 10, 32, 32, 125, 44, 10, 32, 32, 34, 99, 97, 108,
    108, 84, 111, 65, 99, 116, 105, 111, 110, 34, 58, 32, 34, 115, 116, 114, 105, 110, 103, 34,
    44, 10, 32, 32, 34, 99, 111, 109, 112, 108, 105, 97, 110, 99, 101, 78, 111, 116, 101, 115,
    34, 58, 32, 91, 34, 115, 116, 114, 105, 110, 103, 34, 93, 44, 10, 32, 32, 34, 104, 97,
    115, 104, 116, 97, 103, 115, 34, 58, 32, 91, 34, 115, 116, 114, 105, 110, 103, 34, 93, 44,
    10, 32, 32, 34, 98, 117, 100, 103, 101, 116, 82, 101, 99, 111, 109, 109, 101, 110, 100, 97,
    116, 105, 111, 110, 115, 34, 58, 32, 123, 10, 32, 32, 32, 32, 34, 99, 114, 101, 97, 116,
    111, 114, 70, 101, 101, 34, 58, 32, 34, 115, 116, 114, 105, 110, 103, 34, 44, 10, 32, 32,
    32, 32, 34, 97, 100, 83, 112, 101, 110, 100, 34, 58, 32, 34, 115, 116, 114, 105, 110, 103,
    34, 10, 32, 32, 125, 10, 125, 10, 60, 47, 111, 117, 116, 112, 117, 116, 95, 102, 111, 114,
    109, 97, 116, 62, 10, 10, 60, 114, 117, 108, 101, 115, 62, 10, 45, 32, 66, 97, 115, 101,
    32, 97, 108, 108, 32, 114, 101, 99, 111, 109, 109, 101, 110, 100, 97, 116, 105, 111, 110, 115,
    32, 111, 110, 32, 116, 104, 101, 32, 112, 114, 111, 118, 105, 100, 101, 100, 32, 112, 114, 111,
    100, 117, 99, 116, 32, 97, 110, 100, 32, 97, 117, 100, 105, 101, 110, 99, 101, 32, 100, 97,
    116, 97, 10, 45, 32, 69, 110, 115, 117, 114, 101, 32, 112, 108, 97, 116, 102, 111, 114, 109,
    45, 115, 112, 101, 99, 105, 102, 105, 99, 32, 111, 112, 116, 105, 109, 105, 122, 97, 116, 105,
    111, 110, 32, 40, 73, 110, 115, 116, 97, 103, 114, 97, 109, 32, 118, 115, 32, 84, 105, 107,
    84, 111, 107, 32, 118, 115, 32, 89, 111, 117, 84, 117, 98, 101, 41, 10, 45, 32, 73, 110,
    99, 108, 117, 100, 101, 32, 70, 84, 67, 32, 99, 111, 109, 112, 108, 105, 97, 110, 99, 101,
    32, 103, 117, 105, 100, 101, 108, 105, 110, 101, 115, 32, 102, 111, 114, 32, 115, 112, 111, 110,
    115, 111, 114, 101, 100, 32, 99, 111, 110, 116, 101, 110, 116, 10, 45, 32, 80, 114, 111, 118,
    105, 100, 101, 32, 115, 112, 101, 99, 105, 102, 105, 99, 44, 32, 97, 99, 116, 105, 111, 110,
    97, 98, 108, 101, 32, 99, 114, 101, 97, 116, 105, 118, 101, 32, 100, 105, 114, 101, 99, 116,
    105, 111, 110, 10, 45, 32, 83, 101, 116, 32, 114, 101, 97, 108, 105, 115, 116, 105, 99, 32,
    98, 117, 116, 32, 97, 109, 98, 105, 116, 105, 111, 117, 115, 32, 112, 101, 114, 102, 111, 114,
    109, 97, 110, 99, 101, 32, 116, 97, 114, 103, 101, 116, 115, 10, 45, 32, 67, 111, 110, 115,
    105, 100, 101, 114, 32, 115, 101, 97, 115, 111, 110, 97, 108, 32, 116, 114, 101, 110, 100, 115,
    32, 97, 110, 100, 32, 99, 117, 114, 114, 101, 110, 116, 32, 115, 111, 99, 105, 97, 108, 32,
    109, 101, 100, 105, 97, 32, 98, 101, 115, 116, 32, 112, 114, 97, 99, 116, 105, 99, 101, 115,
    10, 45, 32, 71, 101, 110, 101, 114, 97, 116, 101, 32, 114, 101, 108, 101, 118, 97, 110, 116,
    32, 104, 97, 115, 104, 116, 97, 103, 115, 32, 102, 111, 114, 32, 101, 97, 99, 104, 32, 112,
    108, 97, 116, 102, 111, 114, 109, 10, 45, 32, 79, 117, 116, 112, 117, 116, 32, 79, 78, 76,
    89, 32, 118, 97, 108, 105, 100, 32, 74, 83, 79, 78, 32, 45, 32, 110, 111, 32, 97, 100,
    100, 105, 116, 105, 111, 110, 97, 108, 32, 116, 101, 120, 116, 32, 111, 114, 32, 102, 111, 114,
    109, 97, 116, 116, 105, 110, 103, 10, 45, 32, 69, 110, 115, 117, 114, 101, 32, 97, 108, 108,
    32, 115, 116, 114, 105, 110, 103, 32, 118, 97, 108, 117, 101, 115, 32, 97, 114, 101, 32, 112,
    114, 111, 112, 101, 114, 108, 121, 32, 101, 115, 99, 97, 112, 101, 100, 32, 102, 111, 114, 32,
    74, 83, 79, 78, 10, 60, 47, 114, 117, 108, 101, 115, 62, 10, 10, 60, 99, 111, 110, 116,
    101, 120, 116, 62, 10, 32, 32, 60, 112, 114, 111, 100, 117, 99, 116, 68, 101, 115, 99, 114,
    105, 112, 116, 105, 111, 110, 62, 10, 32, 32, 32, 32, 123, 123, 112, 114, 111, 100, 117, 99,
    116, 68, 101, 115, 99, 114, 105, 112, 116, 105, 111, 110, 125, 125, 10, 32, 32, 60, 47, 112,
    114, 111, 100, 117, 99, 116, 68, 101, 115, 99, 114, 105, 112, 116, 105, 111, 110, 62, 10, 32,
    32, 60, 116, 97, 114, 103, 101, 116, 65, 117, 100, 105, 101, 110, 99, 101, 62, 10, 32, 32,
    32, 32, 123, 123, 116, 97, 114, 103, 101, 116, 65, 117, 100, 105, 101, 110, 99, 101, 125, 125,
    10, 32, 32, 60, 47, 116, 97, 114, 103, 101, 116, 65, 117, 100, 105, 101, 110, 99, 101, 62,
    10, 32, 32, 60, 99, 97, 109, 112, 97, 105, 103, 110, 71, 111, 97, 108, 115, 62, 10, 32,
    32, 32, 32, 123, 123, 99, 97, 109, 112, 97, 105, 103, 110, 71, 111, 97, 108, 115, 125, 125,
    10, 32, 32, 60, 47, 99, 97, 109, 112, 97, 105, 103, 110, 71, 111, 97, 108, 115, 62, 10,
    32, 32, 60, 98, 117, 100, 103, 101, 116, 62, 10, 32, 32, 32, 32, 123, 123, 98, 117, 100,
    103, 101, 116, 125, 125, 10, 32, 32, 60, 47, 98, 117, 100, 103, 101, 116, 62, 10, 32, 32,
    60, 112, 108, 97, 116, 102, 111, 114, 109, 115, 62, 10, 32, 32, 32, 32, 123, 123, 112, 108,
    97, 116, 102, 111, 114, 109, 115, 125, 125, 10, 32, 32, 60, 47, 112, 108, 97, 116, 102, 111,
    114, 109, 115, 62, 10, 32, 32, 60, 116, 105, 109, 101, 102, 114, 97, 109, 101, 62, 10, 32,
    32, 32, 32, 123, 123, 116, 105, 109, 101, 102, 114, 97, 109, 101, 125, 125, 10, 32, 32, 60,
    47, 116, 105, 109, 101, 102, 114, 97, 109, 101, 62, 10, 60, 47, 99, 111, 110, 116, 101, 120,
    116, 62, 10>>

\* buildPrompt, of the defaulted input d: six replacements, one after another
buildPrompt(d) ==
  LET t1 == Replace(BRIEF_GENERATION_PROMPT_TEMPLATE, sPlaceholderProduct,
                    sanitizeInput(d.productDescription))
      t2 == Replace(t1, sPlaceholderAudience, sanitizeInput(d.targetAudience))
      t3 == Replace(t2, sPlaceholderGoals, sanitizeInput(d.campaignGoals))
      t4 == Replace(t3, sPlaceholderBudget, sanitizeInput(d.budget))
      t5 == Replace(t4, sPlaceholderPlatforms, Join(d.platforms))
  IN Replace(t5, sPlaceholderTimeframe, sanitizeInput(d.timeframe))

---------------------------------------------------------------------------
(* JSON.parse.                                                             *)
(*                                                                         *)
(* A parsed value is a record with a field t, the kind of the value:       *)
(*   "undefined" (a property that is absent), "null",                      *)
(*   "boolean" with b, "number" with its text and whether it is zero,      *)
(*   "string" with s, "array" with items (a sequence of values),           *)
(*   "object" with members (a sequence of <<name, value>>, one per name).  *)
(* The numbers of the model's texts are within the range of a double, so   *)
(* a number is zero exactly when all the digits of its mantissa are.       *)

JUndefined == [t |-> "undefined"]
JNull == [t |-> "null"]
JBoolean(b) == [t |-> "boolean", b |-> b]
JNumber(text, zero) == [t |-> "number", text |-> text, zero |-> zero]
JString(s) == [t |-> "string", s |-> s]
JArray(items) == [t |-> "array", items |-> items]
JObject(members) == [t |-> "object", members |-> members]

\* the result of parsing from a position: failure, or a value and the
\* position after it
Fail == [ok |-> FALSE, v |-> JUndefined, next |-> 0]
Ok(v, next) == [ok |-> TRUE, v |-> v, next |-> next]

\* the code unit at position i of s; -1 past the end
At(s, i) == IF i >= 1 /\ i <= Len(s) THEN s[i] ELSE -1


\* the first position from i on whose code unit is not in set; Len(s) + 1 if
\* there is none
FirstNotIn(s, i, set) ==
  LET stops == {j \in i..Len(s) : s[j] \notin set}
  IN IF stops = {} THEN Len(s) + 1 ELSE Least(stops)

\* the insignificant whitespace of JSON: space, tab, line feed, carriage return
JsonWs == {32, 9, 10, 13}
Digits == 48..57
HexDigits == (48..57) \cup (65..70) \cup (97..102)
SkipWs(s, i) == FirstNotIn(s, i, JsonWs)

HexValue(c) == IF c <= 57 THEN c - 48 ELSE IF c <= 70 THEN c - 55 ELSE c - 87

\* how many backslashes stand immediately before position j of s, after
\* position from
RECURSIVE BackslashesBefore(_, _, _)
BackslashesBefore(s, j, from) ==
  IF j - 1 > from /\ s[j - 1] = 92
    THEN 1 + BackslashesBefore(s, j - 1, from) ELSE 0

\* a JSON number at position i:  -? (0 | [1-9][0-9]*) (. [0-9]+)? ([eE] [+-]? [0-9]+)?
\* a is where its integer part starts, fracEnd where its fraction ends and
\* end where the number ends
NumberEnd(s, i, a, fracEnd, end) ==
  Ok(JNumber(SubSeq(s, i, end - 1),
             \A k \in a..(fracEnd - 1) : s[k] \in {48, 46}),
     end)

NumberExponent(s, i, a, fracEnd, expAt) ==
  IF At(s, expAt) \in Digits
    THEN NumberEnd(s, i, a, fracEnd, FirstNotIn(s, expAt, Digits))
    ELSE Fail

NumberFraction(s, i, a, fracEnd) ==
  IF fracEnd = 0 THEN Fail
  ELSE IF At(s, fracEnd) \notin {101, 69} THEN NumberEnd(s, i, a, fracEnd, fracEnd)
  ELSE NumberExponent(s, i, a, fracEnd,
                      IF At(s, fracEnd + 1) \in {43, 45} THEN fracEnd + 2
                                                          ELSE fracEnd + 1)

NumberInteger(s, i, a, intEnd) ==
  IF intEnd = 0 THEN Fail
  ELSE NumberFraction(s, i, a,
                      IF At(s, intEnd) # 46 THEN intEnd
                      ELSE IF At(s, intEnd + 1) \in Digits
                        THEN FirstNotIn(s, intEnd + 1, Digits)
                      ELSE 0)

NumberFrom(s, i, a) ==
  NumberInteger(s, i, a,
                IF At(s, a) = 48 THEN a + 1
                ELSE IF At(s, a) \in 49..57 THEN FirstNotIn(s, a, Digits)
                ELSE 0)

ParseNumber(s, i) == NumberFrom(s, i, IF At(s, i) = 45 THEN i + 1 ELSE i)

\* what an escape sequence that starts at position j stands for
Unescape(s, j) ==
  LET c == s[j + 1]
  IN IF c = 98 THEN <<8>>
     ELSE IF c = 102 THEN <<12>>
     ELSE IF c = 110 THEN <<10>>
     ELSE IF c = 114 THEN <<13>>
     ELSE IF c = 116 THEN <<9>>
     ELSE IF c = 117
       THEN <<HexValue(s[j + 2]) * 4096 + HexValue(s[j + 3]) * 256
                + HexValue(s[j + 4]) * 16 + HexValue(s[j + 5])>>
     ELSE <<c>>

\* the position of the quote that closes the JSON string whose opening quote
\* is at position i; 0 if there is none
ClosingQuote(s, i) ==
  LET closers == {j \in (i + 1)..Len(s) :
                    s[j] = 34 /\ BackslashesBefore(s, j, i) % 2 = 0}
  IN IF closers = {} THEN 0 ELSE Least(closers)

\* the JSON string between the quotes at positions i and close
StringBetween(s, i, close) ==
  LET EscStart(j) ==
        j > i /\ s[j] = 92 /\ BackslashesBefore(s, j, i) % 2 = 0
      InUnicode(j) ==
        \E k \in 2..5 : EscStart(j - k) /\ s[j - k + 1] = 117
      WellFormed(j) ==
        /\ s[j] >= 32
        /\ EscStart(j) =>
             \/ s[j + 1] \in {34, 92, 47, 98, 102, 110, 114, 116}
             \/ /\ s[j + 1] = 117
                /\ j + 5 < close
                /\ \A k \in 2..5 : s[j + k] \in HexDigits
      Unit(j) ==
        IF EscStart(j) THEN Unescape(s, j)
        ELSE IF EscStart(j - 1) \/ InUnicode(j) THEN <<>>
        ELSE <<s[j]>>
  IN IF close = 0 \/ ~(\A j \in (i + 1)..(close - 1) : WellFormed(j))
       THEN Fail
       ELSE Ok(JString(MapRange(Unit, i + 1, close - 1)), close + 1)

\* a JSON string whose opening quote is at position i
ParseString(s, i) == StringBetween(s, i, ClosingQuote(s, i))

\* the members with name |-> v defined: a name that occurs again takes the
\* later value
PutMember(members, name, v) ==
  IF \E k \in 1..Len(members) : members[k][1] = name
    THEN [k \in 1..Len(members) |->
            IF members[k][1] = name THEN <<name, v>> ELSE members[k]]
    ELSE Append(members, <<name, v>>)

\* The parser, from position i of s on.  What it reads there is
\*   "value"  a JSON value, after whitespace
\*   "items"  the elements of an array that follow the elements acc
\*   "pairs"  the members of an object that follow the members acc
RECURSIVE Parse(_, _, _, _)

\* the value that starts at position a with the code unit c
ValueAt(s, a, c) ==
  IF c = 123
    THEN IF At(s, SkipWs(s, a + 1)) = 125
           THEN Ok(JObject(<<>>), SkipWs(s, a + 1) + 1)
           ELSE Parse(s, a + 1, "pairs", <<>>)
  ELSE IF c = 91
    THEN IF At(s, SkipWs(s, a + 1)) = 93
           THEN Ok(JArray(<<>>), SkipWs(s, a + 1) + 1)
           ELSE Parse(s, a + 1, "items", <<>>)
  ELSE IF c = 34 THEN ParseString(s, a)
  ELSE IF c = 45 \/ c \in Digits THEN ParseNumber(s, a)
  ELSE IF MatchAt(s, <<116, 114, 117, 101>>, a) THEN Ok(JBoolean(TRUE), a + 4)
  ELSE IF MatchAt(s, <<102, 97, 108, 115, 101>>, a)
    THEN Ok(JBoolean(FALSE), a + 5)
  ELSE IF MatchAt(s, <<110, 117, 108, 108>>, a) THEN Ok(JNull, a + 4)
  ELSE Fail

\* after the elements items of an array, at position j
ItemsEnd(s, items, j) ==
  IF At(s, j) = 44 THEN Parse(s, j + 1, "items", items)
  ELSE IF At(s, j) = 93 THEN Ok(JArray(items), j + 1)
  ELSE Fail

\* after the elements acc, the element that was parsed as r
ItemParsed(s, acc, r) ==
  IF ~r.ok THEN Fail ELSE ItemsEnd(s, Append(acc, r.v), SkipWs(s, r.next))

\* after the members of an object, at position j
PairsEnd(s, members, j) ==
  IF At(s, j) = 44 THEN Parse(s, j + 1, "pairs", members)
  ELSE IF At(s, j) = 125 THEN Ok(JObject(members), j + 1)
  ELSE Fail

\* after the members acc and a name, the value that was parsed as r
PairParsed(s, acc, name, r) ==
  IF ~r.ok THEN Fail
  ELSE PairsEnd(s, PutMember(acc, name.v.s, r.v), SkipWs(s, r.next))

\* after the members acc and a name, at position colon
PairColon(s, acc, name, colon) ==
  IF At(s, colon) = 58
    THEN PairParsed(s, acc, name, Parse(s, colon + 1, "value", <<>>))
    ELSE Fail

\* after the members acc, the name that was parsed as name
PairNamed(s, acc, name) ==
  IF ~name.ok THEN Fail ELSE PairColon(s, acc, name, SkipWs(s, name.next))

Parse(s, i, what, acc) ==
  IF what = "value" THEN ValueAt(s, SkipWs(s, i), At(s, SkipWs(s, i)))
  ELSE IF what = "items"
    THEN ItemParsed(s, acc, Parse(s, i, "value", <<>>))
  ELSE IF At(s, SkipWs(s, i)) = 34
    THEN PairNamed(s, acc, ParseString(s, SkipWs(s, i)))
  ELSE Fail

\* the value r parsed from text, if nothing but whitespace follows it
WholeText(text, r) ==
  IF r.ok /\ SkipWs(text, r.next) = Len(text) + 1 THEN r ELSE Fail

\* JSON.parse(text): the value, or a SyntaxError
JSONParse(text) == WholeText(text, Parse(text, 1, "value", <<>>))

\* obj[name]
Get(obj, name) ==
  IF obj.t = "object" /\ \E k \in 1..Len(obj.members) : obj.members[k][1] = name
    THEN obj.members[CHOOSE k \in 1..Len(obj.members) :
                       obj.members[k][1] = name][2]
    ELSE JUndefined

\* !v
Falsy(v) ==
  \/ v.t \in {"undefined", "null"}
  \/ v.t = "boolean" /\ ~v.b
  \/ v.t = "number" /\ v.zero
  \/ v.t = "string" /\ v.s = <<>>

\* typeof v === 'object', of a value that is not null
IsObjectType(v) == v.t \in {"object", "array"}

---------------------------------------------------------------------------
(* parseAndValidateResponse.                                               *)

\* (mutant) the pattern without its flag i
StripJsonFence_caseSensitive(s) ==
  IF MatchAt(s, <<96, 96, 96, 106, 115, 111, 110>>, 1)
    THEN SubSeq(s, FirstNotIn(s, 8, WhiteSpace), Len(s))
    ELSE s

\* .replace(/^```json\s*/i, '')
StripJsonFence(s) ==
  IF /\ MatchAt(s, <<96, 96, 96>>, 1)
     /\ At(s, 4) \in {106, 74}
     /\ At(s, 5) \in {115, 83}
     /\ At(s, 6) \in {111, 79}
     /\ At(s, 7) \in {110, 78}
    THEN SubSeq(s, FirstNotIn(s, 8, WhiteSpace), Len(s))
    ELSE s

\* .replace(/\s*```$/, '')
StripClosingFence(s) ==
  IF Len(s) >= 3 /\ MatchAt(s, <<96, 96, 96>>, Len(s) - 2)
    THEN TrimEnd(SubSeq(s, 1, Len(s) - 3))
    ELSE s

\* .replace(/^```\s*/, '')
StripFence(s) ==
  IF MatchAt(s, <<96, 96, 96>>, 1)
    THEN SubSeq(s, FirstNotIn(s, 4, WhiteSpace), Len(s))
    ELSE s

\* cleanResponse, lines 263-270
cleanResponse(response) ==
  Trim(StripFence(StripClosingFence(StripJsonFence(Trim(response)))))

requiredFields ==
  <<sCampaignTitle, sObjective, sPlatforms, sContentFormats, sMessagingPillars>>
arrayFields == <<sPlatforms, sContentFormats, sMessagingPillars>>

\* parseAndValidateResponse, lines 276-314: the checks of the parsed value
validateBrief(brief) ==
  LET missing == {k \in 1..Len(requiredFields) :
                    Falsy(Get(brief, requiredFields[k]))}
      notArray == {k \in 1..Len(arrayFields) :
                     LET v == Get(brief, arrayFields[k])
                     IN v.t # "array" \/ Len(v.items) = 0}
      NotObject(name) ==
        Falsy(Get(brief, name)) \/ ~IsObjectType(Get(brief, name))
  IN IF Falsy(brief) \/ ~IsObjectType(brief) THEN Throw(sMustBeObject)
     ELSE IF missing # {}
       THEN Throw(sMissingField \o requiredFields[Least(missing)])
     ELSE IF notArray # {}
       THEN Throw(arrayFields[Least(notArray)] \o sMustBeArray)
     ELSE IF NotObject(sCreativeDirection) THEN Throw(sCreativeDirectionObject)
     ELSE IF NotObject(sDeliverables) THEN Throw(sDeliverablesObject)
     ELSE IF NotObject(sKpis) THEN Throw(sKpisObject)
     ELSE Return(brief)

\* what parseAndValidateResponse makes of the outcome of JSON.parse
briefOf(parsed) ==
  IF ~parsed.ok THEN Throw(sInvalidJSON) ELSE validateBrief(parsed.v)

\* parseAndValidateResponse: the brief it returns or the Error it throws
parseAndValidateResponse(response) == briefOf(JSONParse(cleanResponse(response)))

---------------------------------------------------------------------------
(* generateCreatorBrief: the catch block, and what follows the await.      *)

\* (mutant) the catch block without its test for 'JSON'
catchError_noJSON(errorMessage) ==
  IF Includes(errorMessage, sRateLimitMarker) THEN Throw(sTooManyRequests)
  ELSE Throw(sFailedToGenerate \o errorMessage)

\* lines 186-200: the Error thrown for an Error with message errorMessage
\* caught in the try block
catchError(errorMessage) ==
  IF Includes(errorMessage, sRateLimitMarker) THEN Throw(sTooManyRequests)
  ELSE IF Includes(errorMessage, sJSONMarker) THEN Throw(sFailedToProcess)
  ELSE Throw(sFailedToGenerate \o errorMessage)

---------------------------------------------------------------------------
(* The inputs and the backend texts of the model.                          *)

\* sUser1: the text  u1
sUser1 == <<117, 49>>
\* sUser2: the text  u2
sUser2 == <<117, 50>>
\* sEco: the text  Eco
sEco == <<69, 99, 111>>
\* sPaddedEco: the text   <Eco>\n
sPaddedEco == <<32, 60, 69, 99, 111, 62, 10>>
\* sMil: the text  Mil
sMil == <<77, 105, 108>>
\* sBlank: the text   	
sBlank == <<32, 9>>
\* sQuoted: the text  a"b
sQuoted == <<97, 34, 98>>
\* sSlashed: the text  a\b
sSlashed == <<97, 92, 98>>
\* sTagged: the text  <b>
sTagged == <<60, 98, 62>>
\* sTwoLines: the text  Tik\nTok
sTwoLines == <<84, 105, 107, 10, 84, 111, 107>>
\* sDollarAmp: the text  $&
sDollarAmp == <<36, 38>>
\* sAa: the text  Aa
sAa == <<65, 97>>
\* sBB: the text  BB
sBB == <<66, 66>>
\* sMarkedGoals: the text  <g>\n\ng
sMarkedGoals == <<60, 103, 62, 10, 10, 103>>
\* sMarkedBudget: the text  <1>\nk
sMarkedBudget == <<60, 49, 62, 10, 107>>
\* sMarkedTimeframe: the text   \n<t> 
sMarkedTimeframe == <<32, 10, 60, 116, 62, 32>>
\* a string of n code units c
Filled(c, n) == SubSeq([i \in 1..n |-> c], 1, n)

CreatorBriefInput(productDescription, targetAudience, campaignGoals,
                  platforms) ==
  [productDescription |-> productDescription,
   targetAudience |-> targetAudience,
   campaignGoals |-> campaignGoals, budget |-> None,
   platforms |-> platforms, timeframe |-> None, userId |-> None]

\* the inputs callers pass to generateCreatorBrief (without the userId):
\*  1      a product and an audience, nothing else given
\*  2      as 1, the product with surrounding whitespace and angle brackets
\*  3      as 1, the default goals and platforms given explicitly
\*  4, 5   the product empty, blank
\*  6, 7   the product of 1000 and of 1001 code units
\*  8, 9   the audience empty, blank
\*  10, 11 the audience of 500 and of 501 code units
\*  12     the product of 1001 code units that are 999 after trimming
\*  13, 14 the product with a double quote, with a backslash
\*  15     platforms with angle brackets and with a line feed
\*  16     the product is the text of the audience's placeholder
\*  17     the audience is the replacement pattern $&
\*  18, 19 the products "Aa" and "BB"
\*  20     goals, budget and timeframe with angle brackets and line feeds
Inputs ==
  <<CreatorBriefInput(sEco, sMil, None, None),
    CreatorBriefInput(sPaddedEco, sMil, None, None),
    CreatorBriefInput(sEco, sMil, Some(sDefaultGoals),
                      Some(<<sInstagram, sTikTok>>)),
    CreatorBriefInput(<<>>, sMil, None, None),
    CreatorBriefInput(sBlank, sMil, None, None),
    CreatorBriefInput(Filled(97, 1000), sMil, None, None),
    CreatorBriefInput(Filled(97, 1001), sMil, None, None),
    CreatorBriefInput(sEco, <<>>, None, None),
    CreatorBriefInput(sEco, sBlank, None, None),
    CreatorBriefInput(sEco, Filled(98, 500), None, None),
    CreatorBriefInput(sEco, Filled(98, 501), None, None),
    CreatorBriefInput(<<32>> \o Filled(97, 999) \o <<32>>, sMil, None, None),
    CreatorBriefInput(sQuoted, sMil, None, None),
    CreatorBriefInput(sSlashed, sMil, None, None),
    CreatorBriefInput(sEco, sMil, None, Some(<<sTagged, sTwoLines>>)),
    CreatorBriefInput(sPlaceholderAudience, sMil, None, None),
    CreatorBriefInput(sEco, sDollarAmp, None, None),
    CreatorBriefInput(sAa, sMil, None, None),
    CreatorBriefInput(sBB, sMil, None, None),
    [CreatorBriefInput(sEco, sMil, Some(sMarkedGoals), None)
       EXCEPT !.budget = Some(sMarkedBudget),
              !.timeframe = Some(sMarkedTimeframe)]>>

NumInputs == Len(Inputs)

\* the tuple <<Op(1), ..., Op(n)>>
RECURSIVE TableOf(_, _)
TableOf(Op(_), n) == IF n = 0 THEN <<>> ELSE Append(TableOf(Op, n - 1), Op(n))

\* the userIds callers pass
UserIds == <<None, Some(sUser1), Some(sUser2)>>

\* the input n as generateCreatorBrief destructures it, called with userId
inputOf(n, userId) == [Defaulted(Inputs[n]) EXCEPT !.userId = userId]

\* createCacheKey of each input with each userId, computed once
cacheKeys ==
  LET Keys(n) == LET Key(k) == createCacheKey(inputOf(n, UserIds[k]))
                 IN TableOf(Key, Len(UserIds))
  IN TableOf(Keys, NumInputs)

\* validateInputs of each input, computed once
validations ==
  LET Validated(n) == validateInputs(Inputs[n].productDescription,
                                     Inputs[n].targetAudience)
  IN TableOf(Validated, NumInputs)

\* what the catch block makes of each validation Error, computed once
rejections ==
  LET Rejected(n) == IF validations[n].threw
                       THEN catchError(validations[n].value)
                       ELSE validations[n]
  IN TableOf(Rejected, NumInputs)

\* buildPrompt of each input, computed once
prompts ==
  LET Built(n) == buildPrompt(Defaulted(Inputs[n]))
  IN TableOf(Built, NumInputs)

cacheKeyOf(n, userId) ==
  cacheKeys[n][CHOOSE k \in 1..Len(UserIds) : UserIds[k] = userId]

\* the texts the backend answers with: a brief that passes every check of
\* parseAndValidateResponse, and a text that is not JSON
\* sBriefJson: 154 code units, starting  {"campaignTitle":"T","objective":"O","platforms":["P"],"cont
sBriefJson ==
  <<123, 34, 99, 97, 109, 112, 97, 105, 103, 110, 84, 105, 116, 108, 101, 34, 58, 34, 84, 34,
    44, 34, 111, 98, 106, 101, 99, 116, 105, 118, 101, 34, 58, 34, 79, 34, 44, 34, 112, 108,
    97, 116, 102, 111, 114, 109, 115, 34, 58, 91, 34, 80, 34, 93, 44, 34, 99, 111, 110, 116,
    101, 110, 116, 70, 111, 114, 109, 97, 116, 115, 34, 58, 91, 34, 70, 34, 93, 44, 34, 109,
    101, 115, 115, 97, 103, 105, 110, 103, 80, 105, 108, 108, 97, 114, 115, 34, 58, 91, 34, 77,
    34, 93, 44, 34, 99, 114, 101, 97, 116, 105, 118, 101, 68, 105, 114, 101, 99, 116, 105, 111,
    110, 34, 58, 123, 125, 44, 34, 100, 101, 108, 105, 118, 101, 114, 97, 98, 108, 101, 115, 34,
    58, 123, 125, 44, 34, 107, 112, 105, 115, 34, 58, 123, 125, 125>>
\* sNotJson: the text  Sorry
sNotJson == <<83, 111, 114, 114, 121>>
\* the messages of the Errors the backend's SDK throws
\* sBackendRateLimit: the text  429 Rate limit exceeded for requests
sBackendRateLimit ==
  <<52, 50, 57, 32, 82, 97, 116, 101, 32, 108, 105, 109, 105, 116, 32, 101, 120, 99, 101, 101,
    100, 101, 100, 32, 102, 111, 114, 32, 114, 101, 113, 117, 101, 115, 116, 115>>
\* sBackendJSON: the text  Unexpected token < in JSON at position 0
sBackendJSON ==
  <<85, 110, 101, 120, 112, 101, 99, 116, 101, 100, 32, 116, 111, 107, 101, 110, 32, 60, 32, 105,
    110, 32, 74, 83, 79, 78, 32, 97, 116, 32, 112, 111, 115, 105, 116, 105, 111, 110, 32, 48>>

\* texts that are JSON and not a complete brief: messagingPillars is absent;
\* platforms is an empty list; kpis is absent; kpis is a list
\* sNoPillars: 129 code units, starting  {"campaignTitle":"T","objective":"O","platforms":["P"],"cont
sNoPillars ==
  <<123, 34, 99, 97, 109, 112, 97, 105, 103, 110, 84, 105, 116, 108, 101, 34, 58, 34, 84, 34,
    44, 34, 111, 98, 106, 101, 99, 116, 105, 118, 101, 34, 58, 34, 79, 34, 44, 34, 112, 108,
    97, 116, 102, 111, 114, 109, 115, 34, 58, 91, 34, 80, 34, 93, 44, 34, 99, 111, 110, 116,
    101, 110, 116, 70, 111, 114, 109, 97, 116, 115, 34, 58, 91, 34, 70, 34, 93, 44, 34, 99,
    114, 101, 97, 116, 105, 118, 101, 68, 105, 114, 101, 99, 116, 105, 111, 110, 34, 58, 123, 125,
    44, 34, 100, 101, 108, 105, 118, 101, 114, 97, 98, 108, 101, 115, 34, 58, 123, 125, 44, 34,
    107, 112, 105, 115, 34, 58, 123, 125, 125>>
\* sEmptyPlatforms: 151 code units, starting  {"campaignTitle":"T","objective":"O","platforms":[],"content
sEmptyPlatforms ==
  <<123, 34, 99, 97, 109, 112, 97, 105, 103, 110, 84, 105, 116, 108, 101, 34, 58, 34, 84, 34,
    44, 34, 111, 98, 106, 101, 99, 116, 105, 118, 101, 34, 58, 34, 79, 34, 44, 34, 112, 108,
    97, 116, 102, 111, 114, 109, 115, 34, 58, 91, 93, 44, 34, 99, 111, 110, 116, 101, 110, 116,
    70, 111, 114, 109, 97, 116, 115, 34, 58, 91, 34, 70, 34, 93, 44, 34, 109, 101, 115, 115,
    97, 103, 105, 110, 103, 80, 105, 108, 108, 97, 114, 115, 34, 58, 91, 34, 77, 34, 93, 44,
    34, 99, 114, 101, 97, 116, 105, 118, 101, 68, 105, 114, 101, 99, 116, 105, 111, 110, 34, 58,
    123, 125, 44, 34, 100, 101, 108, 105, 118, 101, 114, 97, 98, 108, 101, 115, 34, 58, 123, 125,
    44, 34, 107, 112, 105, 115, 34, 58, 123, 125, 125>>
\* sNoKpis: 144 code units, starting  {"campaignTitle":"T","objective":"O","platforms":["P"],"cont
sNoKpis ==
  <<123, 34, 99, 97, 109, 112, 97, 105, 103, 110, 84, 105, 116, 108, 101, 34, 58, 34, 84, 34,
    44, 34, 111, 98, 106, 101, 99, 116, 105, 118, 101, 34, 58, 34, 79, 34, 44, 34, 112, 108,
    97, 116, 102, 111, 114, 109, 115, 34, 58, 91, 34, 80, 34, 93, 44, 34, 99, 111, 110, 116,
    101, 110, 116, 70, 111, 114, 109, 97, 116, 115, 34, 58, 91, 34, 70, 34, 93, 44, 34, 109,
    101, 115, 115, 97, 103, 105, 110, 103, 80, 105, 108, 108, 97, 114, 115, 34, 58, 91, 34, 77,
    34, 93, 44, 34, 99, 114, 101, 97, 116, 105, 118, 101, 68, 105, 114, 101, 99, 116, 105, 111,
    110, 34, 58, 123, 125, 44, 34, 100, 101, 108, 105, 118, 101, 114, 97, 98, 108, 101, 115, 34,
    58, 123, 125, 125>>
\* sKpisList: 155 code units, starting  {"campaignTitle":"T","objective":"O","platforms":["P"],"cont
sKpisList ==
  <<123, 34, 99, 97, 109, 112, 97, 105, 103, 110, 84, 105, 116, 108, 101, 34, 58, 34, 84, 34,
    44, 34, 111, 98, 106, 101, 99, 116, 105, 118, 101, 34, 58, 34, 79, 34, 44, 34, 112, 108,
    97, 116, 102, 111, 114, 109, 115, 34, 58, 91, 34, 80, 34, 93, 44, 34, 99, 111, 110, 116,
    101, 110, 116, 70, 111, 114, 109, 97, 116, 115, 34, 58, 91, 34, 70, 34, 93, 44, 34, 109,
    101, 115, 115, 97, 103, 105, 110, 103, 80, 105, 108, 108, 97, 114, 115, 34, 58, 91, 34, 77,
    34, 93, 44, 34, 99, 114, 101, 97, 116, 105, 118, 101, 68, 105, 114, 101, 99, 116, 105, 111,
    110, 34, 58, 123, 125, 44, 34, 100, 101, 108, 105, 118, 101, 114, 97, 98, 108, 101, 115, 34,
    58, 123, 125, 44, 34, 107, 112, 105, 115, 34, 58, 91, 49, 93, 125>>
\* a text that is the beginning of a JSON text
\* sTruncated: the text  {"campaignTitle":"T","objective":
sTruncated ==
  <<123, 34, 99, 97, 109, 112, 97, 105, 103, 110, 84, 105, 116, 108, 101, 34, 58, 34, 84, 34,
    44, 34, 111, 98, 106, 101, 99, 116, 105, 118, 101, 34, 58>>
\* code fences: the openers and the closer a backend wraps its JSON in
\* sFenceJson: the text  ```json\n
sFenceJson == <<96, 96, 96, 106, 115, 111, 110, 10>>
\* sFenceJSON: the text   ```JSON  
sFenceJSON == <<32, 96, 96, 96, 74, 83, 79, 78, 32, 32>>
\* sFencePlain: the text  ```\n
sFencePlain == <<96, 96, 96, 10>>
\* sFenceJs: the text  ```js\n
sFenceJs == <<96, 96, 96, 106, 115, 10>>
\* sFenceEnd: the text  \n```
sFenceEnd == <<10, 96, 96, 96>>
\* sFenceEndPadded: the text   ```\n
sFenceEndPadded == <<32, 96, 96, 96, 10>>

\* the text J in a code fence
Fenced(opener, J, closer) == opener \o J \o closer

\* the fences with the language tag json, in either case, or with none
KnownFences ==
  {<<sFenceJson, sFenceEnd>>, <<sFenceJSON, sFenceEndPadded>>,
   <<sFencePlain, sFenceEnd>>}

\* the fence with another language tag
OtherFences == {<<sFenceJs, sFenceEnd>>}

\* the texts that are put in a fence: a complete brief, an incomplete one and
\* a text that is not JSON
FencedTexts == {sBriefJson, sNoPillars, sNotJson}

\* the texts of the backend's answers, as the provider adapter returns them
Texts ==
  <<sBriefJson, sNotJson, sNoPillars, sEmptyPlatforms, sNoKpis, sKpisList,
    sTruncated,
    Trim(Fenced(sFenceJson, sBriefJson, sFenceEnd)),
    Trim(Fenced(sFenceJSON, sBriefJson, sFenceEndPadded)),
    Trim(Fenced(sFencePlain, sBriefJson, sFenceEnd)),
    Trim(Fenced(sFenceJs, sBriefJson, sFenceEnd)),
    Trim(Fenced(sFenceJson, sNoPillars, sFenceEnd)),
    Trim(Fenced(sFenceJSON, sNoPillars, sFenceEndPadded)),
    Trim(Fenced(sFencePlain, sNoPillars, sFenceEnd)),
    Trim(Fenced(sFenceJs, sNoPillars, sFenceEnd)),
    Trim(Fenced(sFenceJson, sNotJson, sFenceEnd)),
    Trim(Fenced(sFenceJSON, sNotJson, sFenceEndPadded)),
    Trim(Fenced(sFencePlain, sNotJson, sFenceEnd)),
    Trim(Fenced(sFenceJs, sNotJson, sFenceEnd))>>

\* parseAndValidateResponse of each of these texts, computed once
parsedTexts ==
  LET Parsed(k) == parseAndValidateResponse(Texts[k])
  IN TableOf(Parsed, Len(Texts))

\* parseAndValidateResponse(response)
parsedOf(response) ==
  LET known == {k \in 1..Len(Texts) : Texts[k] = response}
  IN IF known # {} THEN parsedTexts[CHOOSE k \in known : TRUE]
     ELSE parseAndValidateResponse(response)

\* generateCreatorBrief, lines 177-200: the run after the await, given what
\* generateCompletionWithCache produced
finishBrief(serviceOut) ==
  IF serviceOut.threw THEN catchError(serviceOut.value)
  ELSE LET brief == parsedOf(serviceOut.value)
       IN IF brief.threw THEN catchError(brief.value) ELSE brief

---------------------------------------------------------------------------
(* Invocations.                                                            *)
(*                                                                         *)
(* inv[p] is one invocation slot:                                          *)
(*   pc            "idle" or "awaiting" (suspended in the await of         *)
(*                 generateCompletion, ai-service.ts:170)                  *)
(*   entry         "service": generateCompletionWithCache called directly; *)
(*                 "workflow": generateCreatorBrief                        *)
(*   input         the workflow's input (an index of Inputs), 0 if none    *)
(*   prompt, cacheKey, rateLimitKey   the arguments of                     *)
(*                 generateCompletionWithCache                             *)
(* last is what the latest step delivered to a caller: the invocation that *)
(* step finished, if it finished one: the slot it ran in (0 if the step    *)
(* finished none), its arguments, and                                      *)
(*   called        whether it called the provider                          *)
(*   raw           the text generateCompletionWithCache returned, if any   *)
(*   out           its outcome: the value returned or the Error thrown     *)
(*   after         done, as it was when the invocation finished            *)

Idle ==
  [pc |-> "idle", entry |-> "service", input |-> 0, prompt |-> <<>>,
   cacheKey |-> None, rateLimitKey |-> None]

\* done: the latest workflow invocation that obtained a text from
\* generateCompletionWithCache
\*   input, rateLimitKey   its input and its userId
\*   called                whether it called the provider
\*   raw                   the text
\*   stored                the timestamp of the cache entry that holds the text
NoDone ==
  [input |-> 0, rateLimitKey |-> None, called |-> FALSE, raw |-> <<>>,
   stored |-> 0]

NoLast ==
  [p |-> 0, entry |-> "service", input |-> 0, prompt |-> <<>>,
   cacheKey |-> None, rateLimitKey |-> None, called |-> FALSE,
   raw |-> None, out |-> Return(<<>>), after |-> NoDone]

Finished(p, i, called, raw, out) ==
  [p |-> p, entry |-> i.entry, input |-> i.input, prompt |-> i.prompt,
   cacheKey |-> i.cacheKey, rateLimitKey |-> i.rateLimitKey,
   called |-> called, raw |-> raw, out |-> out, after |-> done]

\* history, per rate-limit key k: the provider calls made for k so far
\*   calls   how many were made
\*   ok      how many of them have returned a text
\*   failed  how many of them have thrown
\*   recent  when those of the last hour, (now - 1h, now], were issued
NoLog == [calls |-> 0, ok |-> 0, failed |-> 0, recent |-> <<>>]
logOf(k) == IF k \in DOMAIN log THEN log[k] ELSE NoLog

logCall(rk, t) ==
  IF IsSome(rk)
    THEN LET l == logOf(The(rk))
         IN MapSet(log, The(rk),
                   [l EXCEPT !.calls = @ + 1, !.recent = Append(@, t)])
    ELSE log

logReturn(rk, result) ==
  IF IsSome(rk)
    THEN MapSet(log, The(rk),
                IF result.threw THEN [logOf(The(rk)) EXCEPT !.failed = @ + 1]
                                ELSE [logOf(The(rk)) EXCEPT !.ok = @ + 1])
    ELSE log

logTick(t) ==
  LET Recent(x) == x > t - ONE_HOUR
  IN [k \in DOMAIN log |->
        [log[k] EXCEPT !.recent = SelectSeq(@, Recent)]]

\* (mutant) the rate limiter is asked before the cache
beginCompletion_limitFirst(cacheKey, rateLimitKey, t) ==
  IF Truthy(rateLimitKey) /\ isRateLimited(The(rateLimitKey), t)
    THEN [kind |-> "limited", out |-> Throw(sRateLimitExceeded),
          cache |-> cache, rateLimiter |-> rateLimiter]
  ELSE IF Truthy(cacheKey) /\ isCacheValid(The(cacheKey), t)
    THEN [kind |-> "hit", out |-> Return(cache[The(cacheKey)].data),
          cache |-> cache, rateLimiter |-> rateLimiter]
  ELSE [kind |-> "call", out |-> Return(<<>>),
        cache |-> cache, rateLimiter |-> rateLimiter]

\* (mutant) a request answered from the cache is recorded like a provider call
beginCompletion_recordsHit(cacheKey, rateLimitKey, t) ==
  IF Truthy(cacheKey) /\ isCacheValid(The(cacheKey), t)
    THEN [kind |-> "hit", out |-> Return(cache[The(cacheKey)].data),
          cache |-> cache,
          rateLimiter |-> IF Truthy(rateLimitKey)
                            THEN updateRateLimit(The(rateLimitKey), t)
                            ELSE rateLimiter]
  ELSE IF Truthy(rateLimitKey) /\ isRateLimited(The(rateLimitKey), t)
    THEN [kind |-> "limited", out |-> Throw(sRateLimitExceeded),
          cache |-> cache, rateLimiter |-> rateLimiter]
  ELSE [kind |-> "call", out |-> Return(<<>>),
        cache |-> cache, rateLimiter |-> rateLimiter]

\* (mutant) a rejected request is recorded in the caller's rate window
beginCompletion_recordsRejection(cacheKey, rateLimitKey, t) ==
  IF Truthy(cacheKey) /\ isCacheValid(The(cacheKey), t)
    THEN [kind |-> "hit", out |-> Return(cache[The(cacheKey)].data),
          cache |-> cache, rateLimiter |-> rateLimiter]
  ELSE IF Truthy(rateLimitKey) /\ isRateLimited(The(rateLimitKey), t)
    THEN [kind |-> "limited", out |-> Throw(sRateLimitExceeded),
          cache |-> cache,
          rateLimiter |-> updateRateLimit(The(rateLimitKey), t)]
  ELSE [kind |-> "call", out |-> Return(<<>>),
        cache |-> cache, rateLimiter |-> rateLimiter]

\* (mutant) a hit renews the timestamp of the entry
beginCompletion_slidingExpiry(cacheKey, rateLimitKey, t) ==
  IF Truthy(cacheKey) /\ isCacheValid(The(cacheKey), t)
    THEN [kind |-> "hit", out |-> Return(cache[The(cacheKey)].data),
          cache |-> cacheSet(The(cacheKey), cache[The(cacheKey)].data, t),
          rateLimiter |-> rateLimiter]
  ELSE IF Truthy(rateLimitKey) /\ isRateLimited(The(rateLimitKey), t)
    THEN [kind |-> "limited", out |-> Throw(sRateLimitExceeded),
          cache |-> cache, rateLimiter |-> rateLimiter]
  ELSE [kind |-> "call", out |-> Return(<<>>),
        cache |-> cache, rateLimiter |-> rateLimiter]

\* generateCompletionWithCache, lines 159-167: the run up to the await, with
\* Date.now() = t.  "hit": the cached text is returned; "limited": the rate
\* limiter rejects; "call": generateCompletion is called and the invocation
\* suspends.  cache and rateLimiter are the stores after the run.
beginCompletion(cacheKey, rateLimitKey, t) ==
  IF Truthy(cacheKey) /\ isCacheValid(The(cacheKey), t)
    THEN [kind |-> "hit", out |-> Return(cache[The(cacheKey)].data),
          cache |-> cache, rateLimiter |-> rateLimiter]
  ELSE IF Truthy(rateLimitKey) /\ isRateLimited(The(rateLimitKey), t)
    THEN [kind |-> "limited", out |-> Throw(sRateLimitExceeded),
          cache |-> cache, rateLimiter |-> rateLimiter]
  ELSE [kind |-> "call", out |-> Return(<<>>),
        cache |-> cache, rateLimiter |-> rateLimiter]

\* (mutant) the text is returned and recorded but not stored
resumeCompletion_noStore(cacheKey, rateLimitKey, result, t) ==
  IF result.threw
    THEN [out |-> result, cache |-> cache, rateLimiter |-> rateLimiter]
    ELSE [out |-> result, cache |-> cache,
          rateLimiter |-> IF Truthy(rateLimitKey)
                            THEN updateRateLimit(The(rateLimitKey), t)
                            ELSE rateLimiter]

\* (mutant) the text is stored and returned but the request is not recorded
resumeCompletion_noRecord(cacheKey, rateLimitKey, result, t) ==
  IF result.threw
    THEN [out |-> result, cache |-> cache, rateLimiter |-> rateLimiter]
    ELSE [out |-> result,
          cache |-> IF Truthy(cacheKey)
                      THEN cacheSet(The(cacheKey), result.value, t)
                      ELSE cache,
          rateLimiter |-> rateLimiter]

\* (mutant) a text is stored only where no valid entry is stored already
resumeCompletion_keepsFirst(cacheKey, rateLimitKey, result, t) ==
  IF result.threw
    THEN [out |-> result, cache |-> cache, rateLimiter |-> rateLimiter]
    ELSE [out |-> result,
          cache |-> IF Truthy(cacheKey) /\ ~isCacheValid(The(cacheKey), t)
                      THEN cacheSet(The(cacheKey), result.value, t)
                      ELSE cache,
          rateLimiter |-> IF Truthy(rateLimitKey)
                            THEN updateRateLimit(The(rateLimitKey), t)
                            ELSE rateLimiter]

\* (mutant) a provider call that failed is recorded in the rate window
resumeCompletion_recordsFailure(cacheKey, rateLimitKey, result, t) ==
  [out |-> result,
   cache |-> IF Truthy(cacheKey) /\ ~result.threw
               THEN cacheSet(The(cacheKey), result.value, t)
               ELSE cache,
   rateLimiter |-> IF Truthy(rateLimitKey)
                     THEN updateRateLimit(The(rateLimitKey), t)
                     ELSE rateLimiter]

\* generateCompletionWithCache, lines 170-180: the run after the await, with
\* Date.now() = t, given what generateCompletion produced: a throw propagates;
\* a text is stored, the request is recorded and the text is returned
resumeCompletion(cacheKey, rateLimitKey, result, t) ==
  IF result.threw
    THEN [out |-> result, cache |-> cache, rateLimiter |-> rateLimiter]
    ELSE [out |-> result,
          cache |-> IF Truthy(cacheKey)
                      THEN cacheSet(The(cacheKey), result.value, t)
                      ELSE cache,
          rateLimiter |-> IF Truthy(rateLimitKey)
                            THEN updateRateLimit(The(rateLimitKey), t)
                            ELSE rateLimiter]

\* what the caller of invocation i gets, by entry point: a direct caller of
\* generateCompletionWithCache its outcome as it is, a caller of
\* generateCreatorBrief what the rest of the workflow makes of it
outcomeOf(i, serviceOut) ==
  IF i.entry = "workflow" THEN finishBrief(serviceOut) ELSE serviceOut

rawOf(serviceOut) == IF serviceOut.threw THEN None ELSE Some(serviceOut.value)

\* done after invocation i has finished, given what
\* generateCompletionWithCache produced for it
doneAfter(i, called, serviceOut, stored) ==
  IF i.entry = "workflow" /\ ~serviceOut.threw
    THEN [input |-> i.input, rateLimitKey |-> i.rateLimitKey,
          called |-> called, raw |-> serviceOut.value, stored |-> stored]
    ELSE done

---------------------------------------------------------------------------
(* Actions.                                                                *)

Init ==
  /\ now = 0
  /\ provider \in Providers
  /\ cache = <<>>
  /\ rateLimiter = <<>>
  /\ inv = [p \in Procs |-> Idle]
  /\ last = NoLast
  /\ log = <<>>
  /\ done = NoDone

\* the clock advances
Tick ==
  /\ now' = now + TickMs
  /\ log' = logTick(now')
  /\ last' = NoLast
  /\ UNCHANGED <<provider, cache, rateLimiter, inv, done>>

\* a caller calls generateCompletionWithCache(prompt, cacheKey, rateLimitKey)
\* in a free slot p
CallService(p, prompt, cacheKey, rateLimitKey) ==
  /\ inv[p].pc = "idle"
  /\ LET b == beginCompletion(cacheKey, rateLimitKey, now)
         started == [Idle EXCEPT !.entry = "service", !.prompt = prompt,
                                 !.cacheKey = cacheKey,
                                 !.rateLimitKey = rateLimitKey]
     IN /\ IF b.kind = "call"
          THEN /\ inv' = [inv EXCEPT ![p] = [started EXCEPT !.pc = "awaiting"]]
               /\ log' = logCall(rateLimitKey, now)
               /\ last' = NoLast
          ELSE /\ last' = Finished(p, started, FALSE, rawOf(b.out),
                                   outcomeOf(started, b.out))
               /\ UNCHANGED <<inv, log>>
        /\ cache' = b.cache
        /\ rateLimiter' = b.rateLimiter
  /\ UNCHANGED <<now, provider, done>>

\* (mutant) a request the backend has failed is issued once more
BackendResponds_retries(p, resp) ==
  /\ inv[p].pc = "awaiting"
  /\ LET result == generateCompletion(provider, resp)
         rk == inv[p].rateLimitKey
         r == resumeCompletion(inv[p].cacheKey, rk, result, now)
     IN IF result.threw
          THEN /\ log' = IF IsSome(rk)
                           THEN MapSet(log, The(rk),
                                       [logOf(The(rk)) EXCEPT
                                          !.failed = @ + 1, !.calls = @ + 1,
                                          !.recent = Append(@, now)])
                           ELSE log
               /\ last' = NoLast
               /\ UNCHANGED <<cache, rateLimiter, inv, done>>
          ELSE /\ cache' = r.cache
               /\ rateLimiter' = r.rateLimiter
               /\ log' = logReturn(rk, result)
               /\ last' = Finished(p, inv[p], TRUE, rawOf(r.out),
                                   outcomeOf(inv[p], r.out))
               /\ done' = doneAfter(inv[p], TRUE, r.out, now)
               /\ inv' = [inv EXCEPT ![p] = Idle]
  /\ UNCHANGED <<now, provider>>

\* (mutant) the text is stored only when the caller can make use of it
BackendResponds_storesParsed(p, resp) ==
  /\ inv[p].pc = "awaiting"
  /\ LET result == generateCompletion(provider, resp)
         rk == inv[p].rateLimitKey
         r == resumeCompletion(inv[p].cacheKey, rk, result, now)
     IN /\ cache' = IF outcomeOf(inv[p], r.out).threw THEN cache ELSE r.cache
        /\ rateLimiter' = r.rateLimiter
        /\ log' = logReturn(rk, result)
        /\ last' = Finished(p, inv[p], TRUE, rawOf(r.out),
                            outcomeOf(inv[p], r.out))
        /\ done' = doneAfter(inv[p], TRUE, r.out, now)
        /\ inv' = [inv EXCEPT ![p] = Idle]
  /\ UNCHANGED <<now, provider>>

\* the backend answers the request of the suspended invocation p: the rest
\* of generateCompletion and of generateCompletionWithCache runs
BackendResponds(p, resp) ==
  /\ inv[p].pc = "awaiting"
  /\ LET result == generateCompletion(provider, resp)
         rk == inv[p].rateLimitKey
         r == resumeCompletion(inv[p].cacheKey, rk, result, now)
     IN /\ cache' = r.cache
        /\ rateLimiter' = r.rateLimiter
        /\ log' = logReturn(rk, result)
        /\ last' = Finished(p, inv[p], TRUE, rawOf(r.out),
                            outcomeOf(inv[p], r.out))
        /\ done' = doneAfter(inv[p], TRUE, r.out, now)
        /\ inv' = [inv EXCEPT ![p] = Idle]
  /\ UNCHANGED <<now, provider>>

---------------------------------------------------------------------------
(* The service specifications: callers of one AIServiceWithCache, which is *)
(* constructed with its default configuration (ai-service.ts:150).         *)

\* sKeyA: the text  a
sKeyA == <<97>>
\* sKeyB: the text  b
sKeyB == <<98>>
\* sPrompt: the text  Hi
sPrompt == <<72, 105>>
\* sTextX: the text  X
sTextX == <<88>>
\* sTextY: the text   Y\n
sTextY == <<32, 89, 10>>
\* sBoom: the text  boom
sBoom == <<98, 111, 111, 109>>

InitService == Init /\ provider = "openai"

\* the sum of Count(l[k]) over the rate-limit keys ks of a history l
RECURSIVE Total(_, _, _)
Total(Count(_), l, ks) ==
  IF ks = {} THEN 0
  ELSE LET k == CHOOSE x \in ks : TRUE
       IN Count(l[k]) + Total(Count, l, ks \ {k})

\* the environment makes at most max provider calls with a rate-limit key:
\* a step that would make one more does not happen
WithinCalls(l, max) ==
  LET Calls(r) == r.calls IN Total(Calls, l, DOMAIN l) <= max

\* the backend fails at most MaxFailures of the calls made with a rate-limit
\* key
MayAnswer(p, resp) ==
  LET Failed(r) == r.failed
  IN (IsSome(inv[p].rateLimitKey) /\ generateCompletion(provider, resp).threw)
       => Total(Failed, log, DOMAIN log) < MaxFailures

\* SpecSeq: one caller at a time, with and without a cache key and a
\* rate-limit key, long enough to fill a rate window
SeqCacheKeys == {None, Some(sKeyA)}
SeqRateKeys == {None, Some(sUser1)}
SeqResponses == {Answer("text", sTextX), Thrown(Some(sBoom))}

NextSeq ==
  \/ now < MaxTicks * TickMs /\ Tick
  \/ \E ck \in SeqCacheKeys, rk \in SeqRateKeys :
       CallService(1, sPrompt, ck, rk) /\ WithinCalls(log', MaxLog)
  \/ \E resp \in SeqResponses : MayAnswer(1, resp) /\ BackendResponds(1, resp)

SpecSeq == InitService /\ [][NextSeq]_vars

\* SpecService: concurrent callers, two cache keys, two rate-limit keys
ServiceCacheKeys == {Some(sKeyA), Some(sKeyB)}
ServiceRateKeys == {Some(sUser1), Some(sUser2)}
ServiceResponses ==
  {Answer("text", sTextX), Answer("text", sTextY), Thrown(Some(sBoom))}

NextService ==
  \/ now < MaxTicks * TickMs /\ Tick
  \/ \E p \in Procs, ck \in ServiceCacheKeys, rk \in ServiceRateKeys :
       CallService(p, sPrompt, ck, rk) /\ WithinCalls(log', MaxCalls)
  \/ \E p \in Procs, resp \in ServiceResponses :
       MayAnswer(p, resp) /\ BackendResponds(p, resp)

SpecService == InitService /\ [][NextService]_vars

---------------------------------------------------------------------------
(* The workflow.                                                           *)

\* the prompt of invocation i: of a workflow invocation, the one buildPrompt
\* makes of its input
promptOf(i) ==
  IF i.entry = "workflow" THEN buildPrompt(Defaulted(Inputs[i.input]))
                          ELSE i.prompt

\* a caller calls generateCreatorBrief in a free slot p, with input n and
\* userId: lines 145-176, the run up to the await, and the rest of the
\* function if generateCompletionWithCache does not suspend
GenerateBrief(p, n, userId) ==
  /\ inv[p].pc = "idle"
  /\ LET d == inputOf(n, userId)
         v == validations[n]
         cacheKey == Some(cacheKeyOf(n, userId))
         rejected == [Idle EXCEPT !.entry = "workflow", !.input = n,
                                  !.rateLimitKey = d.userId]
         started == [rejected EXCEPT !.cacheKey = cacheKey]
         b == beginCompletion(cacheKey, d.userId, now)
     IN IF v.threw
          THEN /\ last' = Finished(p, rejected, FALSE, None, rejections[n])
               /\ UNCHANGED <<cache, rateLimiter, inv, log, done>>
        ELSE IF b.kind = "call"
          THEN /\ inv' = [inv EXCEPT ![p] = [started EXCEPT !.pc = "awaiting"]]
               /\ log' = logCall(d.userId, now)
               /\ last' = NoLast
               /\ cache' = b.cache
               /\ rateLimiter' = b.rateLimiter
               /\ done' = done
        ELSE /\ last' = Finished(p, started, FALSE, rawOf(b.out),
                                 outcomeOf(started, b.out))
             /\ done' = doneAfter(started, FALSE, b.out,
                                  IF b.kind = "hit"
                                    THEN cache[The(cacheKey)].timestamp ELSE 0)
             /\ cache' = b.cache
             /\ rateLimiter' = b.rateLimiter
             /\ UNCHANGED <<inv, log>>
  /\ UNCHANGED <<now, provider>>

\* SpecBrief: callers of generateCreatorBrief, one at a time, with one of two
\* userIds and one of the inputs 1, 2 and 3: three valid inputs that are the
\* same after sanitization and defaulting
BriefInputs == {1, 2, 3}
BriefUsers == {Some(sUser1), Some(sUser2)}
BriefResponses ==
  {Answer("text", sBriefJson), Answer("text", sNotJson), Thrown(Some(sBoom)),
   Thrown(Some(sBackendRateLimit))}

NextBrief ==
  \/ now < MaxTicks * TickMs /\ Tick
  \/ \E n \in BriefInputs, userId \in BriefUsers :
       GenerateBrief(1, n, userId) /\ WithinCalls(log', MaxCalls)
  \/ \E resp \in BriefResponses : MayAnswer(1, resp) /\ BackendResponds(1, resp)

SpecBrief == InitService /\ [][NextBrief]_vars

\* SpecValidate: one caller of generateCreatorBrief with any of the inputs,
\* valid and invalid
ValidateInputs == 1..12
ValidateResponses == {Answer("text", sBriefJson), Thrown(Some(sBoom))}

NextValidate ==
  \/ now < MaxTicks * TickMs /\ Tick
  \/ \E n \in ValidateInputs :
       GenerateBrief(1, n, Some(sUser1)) /\ WithinCalls(log', MaxCalls)
  \/ \E resp \in ValidateResponses :
       MayAnswer(1, resp) /\ BackendResponds(1, resp)

SpecValidate == InitService /\ [][NextValidate]_vars

\* SpecParse: one caller of generateCreatorBrief with one valid input, and a
\* backend that answers with briefs, with incomplete briefs, with texts that
\* are not JSON, bare and in code fences
ParseResponses ==
  {Answer("text", t) :
     t \in {sBriefJson, sNotJson, sNoPillars, sEmptyPlatforms, sNoKpis,
            sKpisList, sTruncated}
          \cup {Fenced(f[1], J, f[2]) :
                  f \in KnownFences \cup OtherFences, J \in FencedTexts}}
    \cup {Thrown(Some(sBoom))}

NextParse ==
  \/ now < MaxTicks * TickMs /\ Tick
  \/ GenerateBrief(1, 1, Some(sUser1)) /\ WithinCalls(log', MaxCalls)
  \/ \E resp \in ParseResponses : MayAnswer(1, resp) /\ BackendResponds(1, resp)

SpecParse == InitService /\ [][NextParse]_vars

\* SpecAdapter: one caller of generateCompletionWithCache at a time, with
\* any of the three providers configured, and a backend whose response
\* carries a text, an empty or a blank text, a content item that is not a
\* text, or no content item, or whose SDK throws an Error or another value
InitAdapter == Init /\ provider \in Providers

AdapterResponses ==
  {Answer("text", sTextY), Answer("text", <<>>), Answer("text", sBlank),
   Answer("other", <<>>), Answer("none", <<>>), Thrown(Some(sBoom)),
   Thrown(None)}

NextAdapter ==
  \/ now < MaxTicks * TickMs /\ Tick
  \/ \E ck \in SeqCacheKeys, rk \in SeqRateKeys :
       CallService(1, sPrompt, ck, rk) /\ WithinCalls(log', MaxCalls)
  \/ \E resp \in AdapterResponses :
       MayAnswer(1, resp) /\ BackendResponds(1, resp)

SpecAdapter == InitAdapter /\ [][NextAdapter]_vars

\* SpecPrompt: one caller of generateCreatorBrief with inputs whose fields
\* hold the characters sanitizeInput and buildPrompt treat specially, and
\* two inputs whose cache keys are the same
PromptInputs == {1, 2} \cup 13..20
PromptResponses == {Answer("text", sBriefJson), Thrown(Some(sBoom))}

NextPrompt ==
  \/ now < MaxTicks * TickMs /\ Tick
  \/ \E n \in PromptInputs :
       GenerateBrief(1, n, Some(sUser1)) /\ WithinCalls(log', MaxCalls)
  \/ \E resp \in PromptResponses :
       MayAnswer(1, resp) /\ BackendResponds(1, resp)

SpecPrompt == InitService /\ [][NextPrompt]_vars

\* SpecFailing: one caller, with and without a cache key, and a backend
\* that may fail any number of the caller's requests
FailingCacheKeys == {None, Some(sKeyA)}

NextFailing ==
  \/ now < MaxTicks * TickMs /\ Tick
  \/ \E ck \in FailingCacheKeys :
       CallService(1, sPrompt, ck, Some(sUser1)) /\ WithinCalls(log', MaxLog)
  \/ \E resp \in SeqResponses : BackendResponds(1, resp)

SpecFailing == InitService /\ [][NextFailing]_vars

---------------------------------------------------------------------------
(* What a step did, read off the state before and after it.                *)

Users == {sUser1, sUser2}
CacheNames == {sKeyA, sKeyB}

\* the step started an invocation in slot p that called the provider
Admitted(p) == inv[p].pc = "idle" /\ inv'[p].pc = "awaiting"

\* the step finished an invocation in slot p without a provider call: a
\* request answered from the cache or rejected by the rate limiter
Answered(p) == last'.p = p /\ ~last'.called

\* the step finished in slot p an invocation that had called the provider
Completed(p) == last'.p = p /\ last'.called

\* the step rejected a request of rate-limit key u
Rejected(p, u) ==
  /\ Answered(p)
  /\ last'.rateLimitKey = Some(u)
  /\ last'.out = Throw(sRateLimitExceeded)

\* the timestamps stored for u that are newer than t - 1h
Trailing(u, t) ==
  IF u \in DOMAIN rateLimiter
    THEN {i \in 1..Len(rateLimiter[u]) : rateLimiter[u][i] > t - 3600000}
    ELSE {}

\* key k has an entry stored less than one hour before t
Fresh(k, t) == k \in DOMAIN cache /\ t - cache[k].timestamp < 3600000

---------------------------------------------------------------------------
(* C1: sequential rate limiting.  While every provider call made so far    *)
(* for a caller has returned a text and all were issued within the last    *)
(* hour, a cache-miss request of that caller is admitted if fewer than 10  *)
(* calls were made, and the 11th is rejected with the rate-limit error and *)
(* makes no provider call; an admitted call that succeeds returns its text.*)
C1_SequentialRateLimit ==
  [][\A u \in Users :
       LET l == logOf(u)
       IN (l.ok = l.calls /\ Len(l.recent) = l.calls) =>
            /\ l.calls < 10 => ~Rejected(1, u)
            /\ l.calls = 10 =>
                 /\ ~(Admitted(1) /\ inv'[1].rateLimitKey = Some(u))
                 /\ log'[u].calls = 10
            /\ (Completed(1) /\ last'.rateLimitKey = Some(u)
                  /\ u \in DOMAIN log' /\ log'[u].ok = l.ok + 1)
                 => last'.out = Return(sTextX)]_vars

\* the 11th request of a caller whose 10 calls of the last hour all returned
\* a text has just been rejected
C1_Witness ==
  /\ last.p = 1
  /\ last.out = Throw(sRateLimitExceeded)
  /\ last.rateLimitKey = Some(sUser1)
  /\ ~last.called
  /\ logOf(sUser1) = [calls |-> 10, ok |-> 10, failed |-> 0,
                      recent |-> logOf(sUser1).recent]
  /\ Len(logOf(sUser1).recent) = 10

---------------------------------------------------------------------------
(* C2: for any interleaving and any provider outcomes, at most 10 requests *)
(* of one caller reach the provider within any rolling 60 minutes: at      *)
(* every moment, at most 10 provider calls were issued for a rate-limit    *)
(* key in the hour ending at that moment.                                  *)
C2_AtMostTenCallsPerHour ==
  \A u \in DOMAIN log : Len(log[u].recent) <= 10

---------------------------------------------------------------------------
(* C3: cache lookup validity.  A request with cache key k at time now is   *)
(* answered with the stored text if and only if an entry exists for k and  *)
(* now - entry.timestamp < 1 hour; otherwise it is a miss: it goes on to   *)
(* the rate limiter and the provider.                                      *)
C3_CacheLookupValidity ==
  [][\A p \in Procs :
       /\ (Answered(p) /\ IsSome(last'.cacheKey) /\ ~last'.out.threw)
            => /\ Fresh(The(last'.cacheKey), now)
               /\ last'.out = Return(cache[The(last'.cacheKey)].data)
       /\ (Admitted(p) /\ IsSome(inv'[p].cacheKey))
            => ~Fresh(The(inv'[p].cacheKey), now)
       /\ \A u \in Users :
            (Rejected(p, u) /\ IsSome(last'.cacheKey))
              => ~Fresh(The(last'.cacheKey), now)]_vars

\* a request found an entry stored exactly one hour ago and called the
\* provider
C3_Witness ==
  /\ inv[1].pc = "awaiting"
  /\ inv[2].pc = "idle"
  /\ inv[1].cacheKey = Some(sKeyA)
  /\ sKeyA \in DOMAIN cache
  /\ now - cache[sKeyA].timestamp = 3600000
  /\ last = NoLast

---------------------------------------------------------------------------
(* C4: a valid cache hit bypasses rate limiting.  A request whose cache    *)
(* key has a valid entry returns the cached text and makes no provider     *)
(* call even when its caller has 10 or more timestamps in the trailing     *)
(* hour.                                                                   *)
C4_HitBypassesRateLimit ==
  [][\A u \in Users, k \in CacheNames :
       (/\ Fresh(k, now)
        /\ Cardinality(Trailing(u, now)) >= 10
        /\ \/ Admitted(1) /\ inv'[1].cacheKey = Some(k)
                          /\ inv'[1].rateLimitKey = Some(u)
           \/ Answered(1) /\ last'.cacheKey = Some(k)
                          /\ last'.rateLimitKey = Some(u))
         => /\ Answered(1)
            /\ last'.out = Return(cache[k].data)
            /\ log' = log]_vars

\* a rate-limited caller has just been answered from the cache
C4_Witness ==
  /\ last.p = 1
  /\ ~last.called
  /\ last.cacheKey = Some(sKeyA)
  /\ last.rateLimitKey = Some(sUser1)
  /\ last.out = Return(sTextX)
  /\ Cardinality(Trailing(sUser1, now)) >= 10

---------------------------------------------------------------------------
(* C5: a cache hit does not consume rate-limit budget.  A request answered *)
(* from the cache leaves every rate window as it was, and a timestamp is   *)
(* appended only by a step that finishes an invocation whose provider call *)
(* was made, and only to that invocation's rate-limit key.                 *)
C5_HitLeavesRateWindows ==
  [][/\ \A p \in Procs :
          (Answered(p) /\ ~last'.out.threw) => rateLimiter' = rateLimiter
     /\ rateLimiter' # rateLimiter
          => /\ last'.p # 0
             /\ last'.called
             /\ IsSome(last'.rateLimitKey)
             /\ \A u \in DOMAIN rateLimiter :
                  u # The(last'.rateLimitKey)
                    => rateLimiter'[u] = rateLimiter[u]]_vars

\* a caller with a recorded timestamp has just been answered from the
\* cache, while another caller has a rate window too
C5_Witness ==
  /\ last.p # 0
  /\ ~last.called
  /\ ~last.out.threw
  /\ last.rateLimitKey = Some(sUser1)
  /\ sUser1 \in DOMAIN rateLimiter
  /\ sUser2 \in DOMAIN rateLimiter

---------------------------------------------------------------------------
(* What a step of the workflow did.                                        *)

\* no invocation is in flight
AllIdle == \A p \in Procs : inv[p].pc = "idle"

\* the step started, in slot 1, generateCreatorBrief with input n and userId
\* u: it suspended in the provider call or it ran to its end
BriefStarted(n, u) ==
  \/ /\ Admitted(1)
     /\ inv'[1].entry = "workflow"
     /\ inv'[1].input = n
     /\ inv'[1].rateLimitKey = Some(u)
  \/ /\ Answered(1)
     /\ last'.entry = "workflow"
     /\ last'.input = n
     /\ last'.rateLimitKey = Some(u)

\* the six fields of input n after defaulting, as the caller gave them
RawFields(n) == [Defaulted(Inputs[n]) EXCEPT !.userId = None]

\* the six fields of input n after defaulting and sanitization
SanitizedFields(n) ==
  LET d == Defaulted(Inputs[n])
  IN [productDescription |-> sanitizeInput(d.productDescription),
      targetAudience |-> sanitizeInput(d.targetAudience),
      campaignGoals |-> sanitizeInput(d.campaignGoals),
      budget |-> sanitizeInput(d.budget),
      platforms |-> [k \in 1..Len(d.platforms) |-> sanitizeInput(d.platforms[k])],
      timeframe |-> sanitizeInput(d.timeframe)]

\* the step starts a call that follows the call recorded in done (which
\* obtained a text), with nothing in flight, less than one hour after the
\* cache entry that holds that text was stored
FollowsWithinTTL ==
  /\ AllIdle
  /\ done.input # 0
  /\ now - done.stored < 3600000

\* the step answered the call it started with the text of done, without a
\* provider call and without a new timestamp in any rate window
AnsweredAsDone ==
  /\ Answered(1)
  /\ last'.raw = Some(done.raw)
  /\ log' = log
  /\ rateLimiter' = rateLimiter

---------------------------------------------------------------------------
---------------------------------------------------------------------------
(* C7: fingerprint independence from caller identity.  When a caller's     *)
(* request follows, within the cache TTL, the request of a different       *)
(* caller with identical other fields whose provider call succeeded, it is *)
(* answered with the same raw text and no second provider call is made.    *)
C7_KeyIndependentOfCaller ==
  [][\A n \in BriefInputs, u \in Users :
       (/\ FollowsWithinTTL
        /\ BriefStarted(n, u)
        /\ done.called
        /\ IsSome(done.rateLimitKey)
        /\ done.rateLimitKey # Some(u)
        /\ RawFields(done.input) = RawFields(n))
         => AnsweredAsDone]_vars

\* the second caller has been answered with the text the first caller's
\* provider call returned; one provider call has been made in all
C7_Witness ==
  /\ last.p = 1
  /\ last.entry = "workflow"
  /\ last.input = 1
  /\ last.rateLimitKey = Some(sUser2)
  /\ ~last.called
  /\ last.raw = Some(sBriefJson)
  /\ last.after.input = 1
  /\ last.after.called
  /\ last.after.rateLimitKey = Some(sUser1)
  /\ last.after.raw = sBriefJson
  /\ logOf(sUser1).calls = 1
  /\ logOf(sUser2).calls = 0

---------------------------------------------------------------------------
(* C8: input validation fails fast.  generateCreatorBrief fails with a     *)
(* validation error if and only if productDescription is empty after       *)
(* trimming or longer than 1000 code units, or targetAudience is empty     *)
(* after trimming or longer than 500 (exactly 1000 and 500 are accepted);  *)
(* such a call makes no provider call and leaves the cache and every rate  *)
(* window as they were.                                                    *)

\* every code unit of s is white space
Blank(s) == \A k \in 1..Len(s) : s[k] \in WhiteSpace

\* the Errors the workflow throws for an input that fails validation
ValidationErrors ==
  {Throw(sFailedToGenerate \o m) :
     m \in {sProductRequired, sAudienceRequired, sProductTooLong,
            sAudienceTooLong}}

---------------------------------------------------------------------------
(* C9: the failure kind surfaced by generateCreatorBrief is determined by  *)
(* the component that failed and never by the text of the underlying       *)
(* message: the rate-limit failure ("Too many requests...") is surfaced    *)
(* only when the rate limiter rejected the request, and a failure of the   *)
(* provider is never surfaced as a rate-limit or a response-format         *)
(* failure.                                                                *)
C9_FailureKindByComponent ==
  [][/\ (last'.p # 0 /\ last'.entry = "workflow"
           /\ last'.out = Throw(sTooManyRequests))
          => /\ ~last'.called
             /\ IsSome(last'.rateLimitKey)
             /\ Cardinality(Trailing(The(last'.rateLimitKey), now)) >= 10
     /\ (last'.p # 0 /\ last'.entry = "workflow" /\ last'.called
           /\ last'.raw = None)
          => last'.out \notin {Throw(sTooManyRequests),
                               Throw(sFailedToProcess)}]_vars

---------------------------------------------------------------------------
(* C10: provider failures do not leak backend internals.  For any two      *)
(* failures of the provider that differ only in the message the backend    *)
(* reports, the Error generateCreatorBrief surfaces is the same, and it    *)
(* does not contain the backend's message.                                 *)

\* what the caller of the suspended invocation p gets if the backend fails
\* now with message m
SurfacedOnFailure(p, m) ==
  outcomeOf(inv[p],
            resumeCompletion(inv[p].cacheKey, inv[p].rateLimitKey,
                             generateCompletion(provider, Thrown(Some(m))),
                             now).out)

BackendMessages == {sBoom, sBackendRateLimit, sBackendJSON}

C10_NoBackendLeak ==
  \A p \in Procs :
    (inv[p].pc = "awaiting" /\ inv[p].entry = "workflow") =>
      \A m1 \in BackendMessages, m2 \in BackendMessages :
        /\ SurfacedOnFailure(p, m1) = SurfacedOnFailure(p, m2)
        /\ ~Includes(SurfacedOnFailure(p, m1).value, m1)

---------------------------------------------------------------------------
(* What generateCreatorBrief returned or threw.                            *)

\* the latest step finished a call of generateCreatorBrief
BriefFinished == last.p # 0 /\ last.entry = "workflow"

\* v is a list with at least one element
NonEmptyList(v) == v.t = "array" /\ Len(v.items) > 0

\* the BriefOutput invariant of an object: its six list fields are non-empty
\* lists and its four object fields are present
BriefOutputInvariant(brief) ==
  /\ \A f \in {sPlatforms, sContentFormats, sMessagingPillars,
                sComplianceNotes, sHashtags} : NonEmptyList(Get(brief, f))
  /\ NonEmptyList(Get(Get(brief, sCreativeDirection), sMustHaveElements))
  /\ \A f \in {sCreativeDirection, sDeliverables, sKpis,
                sBudgetRecommendations} : Get(brief, f).t = "object"

---------------------------------------------------------------------------
(* C11: every object generateCreatorBrief returns satisfies the            *)
(* BriefOutput invariant: platforms, contentFormats, messagingPillars,     *)
(* creativeDirection.mustHaveElements, complianceNotes and hashtags are    *)
(* non-empty lists, and creativeDirection, deliverables, kpis and          *)
(* budgetRecommendations are present.                                      *)
C11_BriefOutputInvariant ==
  (BriefFinished /\ ~last.out.threw) => BriefOutputInvariant(last.out.value)

---------------------------------------------------------------------------
(* C12: a structurally incomplete backend response (a required field       *)
(* missing, a list field that is not a non-empty list, or one of           *)
(* creativeDirection, deliverables and kpis missing or not an object)      *)
(* makes generateCreatorBrief fail with an Error that names the offending  *)
(* field; it never yields a brief.                                         *)

\* incomplete responses, each with the field that is at fault
IncompleteTexts ==
  {<<sNoPillars, sMessagingPillars>>, <<sEmptyPlatforms, sPlatforms>>,
   <<sNoKpis, sKpis>>, <<sKpisList, sKpis>>}

C12_IncompleteResponseFails ==
  \A c \in IncompleteTexts :
    (BriefFinished /\ last.raw = Some(c[1]))
      => (last.out.threw /\ Includes(last.out.value, c[2]))

---------------------------------------------------------------------------
(* C13: a backend response that is not parseable JSON after the code       *)
(* fence is stripped makes generateCreatorBrief fail with the              *)
(* response-format failure, "Failed to process AI response. Please try     *)
(* again."; it is no other Error and no brief.                             *)

\* the raw texts that are not JSON: a word, the beginning of a JSON text,
\* and the word in each of the fences the workflow strips
NonJsonTexts ==
  {sNotJson, sTruncated}
    \cup {Trim(Fenced(f[1], sNotJson, f[2])) : f \in KnownFences}

C13_NonJsonFails ==
  (BriefFinished /\ IsSome(last.raw) /\ The(last.raw) \in NonJsonTexts)
    => last.out = Throw(sFailedToProcess)

\* the provider was called and returned the beginning of a JSON text, and
\* the call of generateCreatorBrief has failed with the response-format
\* failure
C13_Witness ==
  /\ BriefFinished
  /\ last.called
  /\ last.raw = Some(sTruncated)
  /\ last.out = Throw(sFailedToProcess)

---------------------------------------------------------------------------
(* C14, as the specification states it: for every well-formed JSON text J, *)
(* parsing J wrapped in a code fence (an opener with an optional language  *)
(* tag, a trailing fence, surrounding white space) yields what parsing J   *)
(* unfenced yields.  Here the language tag is json, JSON, absent, or js.   *)

\* the well-formed JSON texts that are put in a fence
JsonTexts == {sBriefJson, sNoPillars}

\* the latest step finished a call of generateCreatorBrief whose raw text was
\* J in the fence f, and the call ended as it ends for the raw text J
SameAsUnfenced(f, J) ==
  (BriefFinished /\ last.raw = Some(Trim(Fenced(f[1], J, f[2]))))
    => last.out = finishBrief(Return(J))

---------------------------------------------------------------------------
(* C15: whenever generateCompletion returns, for any of the three backends *)
(* and any backend response, the text it returns is not empty.             *)
C15_AdapterTextNonEmpty ==
  (last.p # 0 /\ last.called /\ IsSome(last.raw)) => The(last.raw) # <<>>

---------------------------------------------------------------------------
(* What a step of a caller of generateCompletionWithCache did.             *)

\* the step started, in slot p, a request with cache key ck (if any) and
\* rate-limit key u: it suspended in the provider call or it ran to its end
Started(p, ck, u) ==
  \/ /\ Admitted(p)
     /\ inv'[p].cacheKey = ck
     /\ inv'[p].rateLimitKey = Some(u)
  \/ /\ Answered(p)
     /\ last'.cacheKey = ck
     /\ last'.rateLimitKey = Some(u)

\* a request with cache key ck (if any) is a cache miss now
Miss(ck) == ~(Truthy(ck) /\ Fresh(The(ck), now))

---------------------------------------------------------------------------
(* C16: no permanent lockout.  A cache-miss request of a caller is         *)
(* admitted whenever fewer than 10 of the caller's recorded timestamps are *)
(* strictly newer than now - 1h, and a request is rejected only when 10 or *)
(* more are: with 10 requests recorded at time t1 and none after, a        *)
(* request at any time now >= t1 + 1h is admitted.                         *)
C16_NoPermanentLockout ==
  [][\A ck \in SeqCacheKeys, u \in Users :
       /\ (Started(1, ck, u) /\ Miss(ck)
             /\ Cardinality(Trailing(u, now)) < 10) => Admitted(1)
       /\ Rejected(1, u) => Cardinality(Trailing(u, now)) >= 10]_vars

\* ten requests were recorded at time 0, and one hour later a request of
\* the same caller has passed the rate limiter and is at the provider
C16_Witness ==
  /\ now = 3600000
  /\ sUser1 \in DOMAIN rateLimiter
  /\ rateLimiter[sUser1] = [k \in 1..10 |-> 0]
  /\ inv[1].pc = "awaiting"
  /\ inv[1].rateLimitKey = Some(sUser1)
  /\ logOf(sUser1).recent = <<3600000>>

---------------------------------------------------------------------------
(* C17: rate-window retention.  Immediately after a rate-limit check for a *)
(* caller at time now, the timestamp sequence stored for that caller holds *)
(* no timestamp older than or equal to now - 1h: old timestamps are pruned *)
(* on each check.                                                          *)
C17_WindowPruned ==
  [][\A ck \in SeqCacheKeys, u \in Users :
       (Started(1, ck, u) /\ Miss(ck) /\ u \in DOMAIN rateLimiter')
         => \A i \in 1..Len(rateLimiter'[u]) :
              rateLimiter'[u][i] > now - 3600000]_vars

---------------------------------------------------------------------------
(* C18: a request rejected by the rate limiter (a cache miss of a caller   *)
(* with 10 or more timestamps in the trailing hour) fails with the         *)
(* rate-limit Error, makes no provider call, and leaves the cache and      *)
(* every rate window as they were.                                         *)
C18_RejectionLeavesStores ==
  [][\A ck \in SeqCacheKeys, u \in Users :
       (Started(1, ck, u) /\ Miss(ck)
          /\ Cardinality(Trailing(u, now)) >= 10)
         => /\ Rejected(1, u)
            /\ UNCHANGED <<cache, rateLimiter, log, inv>>]_vars

\* a request whose cache entry has expired has just been rejected: the
\* expired entry is still stored, and the caller's window holds the 11
\* timestamps it held
C18_Witness ==
  /\ last.p = 1
  /\ ~last.called
  /\ last.out = Throw(sRateLimitExceeded)
  /\ last.cacheKey = Some(sKeyA)
  /\ last.rateLimitKey = Some(sUser1)
  /\ sKeyA \in DOMAIN cache
  /\ now - cache[sKeyA].timestamp >= 3600000
  /\ Len(rateLimiter[sUser1]) = 11
  /\ logOf(sUser1).calls = 11

---------------------------------------------------------------------------
(* C19: when the provider call of a request succeeds, exactly one cache    *)
(* entry is stored, the returned text with the current time, under the     *)
(* request's cache key if it has one; exactly one timestamp, the current   *)
(* time, is appended to the window of the request's rate-limit key if it   *)
(* has one; no other key of either store changes; and the provider's text  *)
(* is returned.                                                            *)

\* the texts generateCompletion returns for the answers of the backend
ServiceTexts == {sTextX, Trim(sTextY)}

C19_MissStoresOnce ==
  [][\A p \in Procs :
       (Completed(p) /\ ~last'.out.threw) =>
         LET ck == inv[p].cacheKey
             rk == inv[p].rateLimitKey
             text == last'.out.value
         IN /\ text \in ServiceTexts
            /\ last'.raw = Some(text)
            /\ cache' =
                 IF Truthy(ck)
                   THEN [k \in DOMAIN cache \cup {The(ck)} |->
                           IF k = The(ck)
                             THEN [data |-> text, timestamp |-> now]
                             ELSE cache[k]]
                   ELSE cache
            /\ rateLimiter' =
                 IF Truthy(rk)
                   THEN [u \in DOMAIN rateLimiter \cup {The(rk)} |->
                           IF u # The(rk) THEN rateLimiter[u]
                           ELSE IF u \in DOMAIN rateLimiter
                             THEN Append(rateLimiter[u], now)
                             ELSE <<now>>]
                   ELSE rateLimiter]_vars

\* half an hour after a request of another caller under another cache key,
\* a provider call has returned: its text is stored with the current time,
\* the current time is the caller's only timestamp, and the entry and the
\* window of the other request are there as well
C19_Witness ==
  /\ last.p # 0
  /\ last.called
  /\ ~last.out.threw
  /\ last.cacheKey = Some(sKeyA)
  /\ last.rateLimitKey = Some(sUser1)
  /\ now = 1800000
  /\ DOMAIN cache = {sKeyA, sKeyB}
  /\ cache[sKeyA] = [data |-> last.out.value, timestamp |-> now]
  /\ cache[sKeyB].timestamp = 0
  /\ DOMAIN rateLimiter = {sUser1, sUser2}
  /\ rateLimiter[sUser1] = <<now>>
  /\ rateLimiter[sUser2] = <<0>>

---------------------------------------------------------------------------
(* C20: an invocation of generateCreatorBrief makes at most one provider   *)
(* call, and none when it is answered from the cache, fails validation or  *)
(* is rejected by the rate limiter; when the provider call fails the       *)
(* invocation ends with an error, with no second call and with the same    *)
(* provider selected.                                                      *)

\* the provider calls made so far, and those of them that have thrown
CallsOf(r) == r.calls
FailedOf(r) == r.failed
CallsMade(l) == Total(CallsOf, l, DOMAIN l)
CallsFailed(l) == Total(FailedOf, l, DOMAIN l)

\* the provider calls that have not returned yet
Pending(l, i) ==
  CallsMade(l) - CallsFailed(l)
    - Total(LAMBDA r : r.ok, l, DOMAIN l)
    = Cardinality({p \in Procs : i[p].pc = "awaiting"})

---------------------------------------------------------------------------
(* C21: no single-flight de-duplication.  A request whose cache key has no *)
(* valid entry is sent to the provider even while another request with the *)
(* same cache key is at the provider; and the entry of a cache key is      *)
(* always the text of the provider call that returned last for it, stored  *)
(* when it returned, so that after two such concurrent calls have both     *)
(* succeeded the entry is valid and holds the text of the later one.       *)

\* the step started in slot p a request with cache key k
StartedWithKey(p, k) ==
  \/ Admitted(p) /\ inv'[p].cacheKey = Some(k)
  \/ Answered(p) /\ last'.cacheKey = Some(k)

\* a provider call with cache key k returned a text in this step
StoredFor(k) ==
  \E p \in Procs :
    Completed(p) /\ IsSome(last'.raw) /\ last'.cacheKey = Some(k)

\* another slot than p is at the provider with cache key k
InFlightElsewhere(p, k) ==
  \E q \in Procs \ {p} :
    inv[q].pc = "awaiting" /\ inv[q].cacheKey = Some(k)

C21_NoSingleFlight ==
  [][\A k \in CacheNames :
       /\ \A p \in Procs :
            (/\ StartedWithKey(p, k)
             /\ InFlightElsewhere(p, k)
             /\ ~Fresh(k, now)
             /\ \A u \in Users : Cardinality(Trailing(u, now)) < 10)
              => Admitted(p) /\ InFlightElsewhere(p, k)'
       /\ IF StoredFor(k)
            THEN /\ k \in DOMAIN cache'
                 /\ cache'[k] = [data |-> last'.out.value, timestamp |-> now]
                 /\ Fresh(k, now)'
            ELSE /\ (k \in DOMAIN cache') = (k \in DOMAIN cache)
                 /\ k \in DOMAIN cache => cache'[k] = cache[k]]_vars

\* two requests with cache key "a", both made at time 0, have both called
\* the provider (made one after the other, the second would have been
\* answered from the cache); the call that has just returned, the second to
\* return, gave "Y" and the other gave "X": the entry holds "Y"
C21_Witness ==
  /\ now = 0
  /\ last.p # 0
  /\ last.called
  /\ last.cacheKey = Some(sKeyA)
  /\ last.out = Return(Trim(sTextY))
  /\ \A p \in Procs : inv[p].pc = "idle"
  /\ CallsMade(log) = 2
  /\ CallsFailed(log) = 0
  /\ DOMAIN cache = {sKeyA}
  /\ cache[sKeyA] = [data |-> Trim(sTextY), timestamp |-> 0]

---------------------------------------------------------------------------
(* C22: sanitization escapes quotes and backslashes.  For every string     *)
(* given to sanitizeInput, the output is the trimmed input with angle      *)
(* brackets removed and runs of line feeds collapsed to one space, in      *)
(* which every double quote stands as backslash, quote and every backslash *)
(* as two backslashes; so every double quote of the output is preceded by  *)
(* an odd number of backslashes.                                           *)

\* the inputs of the workflow invocations that are at the provider
InFlightInputs ==
  {inv[p].input : p \in {q \in Procs : /\ inv[q].pc = "awaiting"
                                       /\ inv[q].entry = "workflow"}}

\* the strings of input n that buildPrompt gives to sanitizeInput
SanitizedStrings(n) ==
  LET d == Defaulted(Inputs[n])
  IN {d.productDescription, d.targetAudience, d.campaignGoals, d.budget,
      d.timeframe}

\* s with every double quote and every backslash preceded by one backslash
Escaped(s) ==
  LET Unit(i) == IF s[i] \in {34, 92} THEN <<92, s[i]>> ELSE <<s[i]>>
  IN MapRange(Unit, 1, Len(s))

\* every double quote of s is preceded by an odd number of backslashes
QuotesEscaped(s) ==
  \A i \in 1..Len(s) : s[i] = 34 => BackslashesBefore(s, i, 0) % 2 = 1

C22_SanitizeEscapes ==
  \A n \in InFlightInputs : \A s \in SanitizedStrings(n) :
    /\ sanitizeInput(s) = Escaped(CollapseNewlines(RemoveAngles(Trim(s))))
    /\ QuotesEscaped(sanitizeInput(s))

---------------------------------------------------------------------------
(* C23: every caller-supplied value interpolated into the context section  *)
(* of the prompt (productDescription, targetAudience, campaignGoals,       *)
(* budget, each element of platforms, timeframe) has been sanitized, so    *)
(* that the prompt has no angle bracket and no line feed other than those  *)
(* of the template.                                                        *)

\* how many angle brackets and line feeds s holds
MarkupCount(s) == Cardinality({i \in 1..Len(s) : s[i] \in {60, 62, 10}})

\* the text interpolated for platforms, were each element sanitized
SanitizedPlatforms(n) == Join(SanitizedFields(n).platforms)

C23_InterpolatedSanitized ==
  \A n \in InFlightInputs :
    /\ Join(Defaulted(Inputs[n]).platforms) = SanitizedPlatforms(n)
    /\ MarkupCount(prompts[n]) = MarkupCount(BRIEF_GENERATION_PROMPT_TEMPLATE)

---------------------------------------------------------------------------
(* C24: prompt rendering is a faithful substitution.  For every input, the *)
(* values that hold placeholder text or a replacement pattern included,    *)
(* the prompt is the template with each of the six placeholders replaced   *)
(* by the sanitized or defaulted value of its own field.                   *)

\* t with the text that stands where the template has the placeholder
\* replaced by value, letter for letter; t is the template up to there
PutAt(t, placeholder, value) ==
  SubSeq(t, 1, IndexOf(BRIEF_GENERATION_PROMPT_TEMPLATE, placeholder) - 1)
    \o value
    \o SubSeq(t, IndexOf(BRIEF_GENERATION_PROMPT_TEMPLATE, placeholder)
                   + Len(placeholder), Len(t))

\* the template with the six values in the places of their placeholders,
\* the last place first
Rendered(product, audience, goals, budget, platforms, timeframe) ==
  PutAt(PutAt(PutAt(PutAt(PutAt(PutAt(BRIEF_GENERATION_PROMPT_TEMPLATE,
    sPlaceholderTimeframe, timeframe),
    sPlaceholderPlatforms, platforms),
    sPlaceholderBudget, budget),
    sPlaceholderGoals, goals),
    sPlaceholderAudience, audience),
    sPlaceholderProduct, product)

\* the prompt of input n, each value in its own place
Faithful(n) ==
  Rendered(sanitizeInput(Defaulted(Inputs[n]).productDescription),
           sanitizeInput(Defaulted(Inputs[n]).targetAudience),
           sanitizeInput(Defaulted(Inputs[n]).campaignGoals),
           sanitizeInput(Defaulted(Inputs[n]).budget),
           Join(Defaulted(Inputs[n]).platforms),
           sanitizeInput(Defaulted(Inputs[n]).timeframe))

C24_FaithfulSubstitution ==
  \A n \in InFlightInputs : prompts[n] = Faithful(n)

---------------------------------------------------------------------------
(* C25: every request the provider adapter sends, to each of the three     *)
(* backends, carries the fixed system instruction to respond with valid    *)
(* JSON only, together with the caller's prompt.                           *)

\* the request r holds the system instruction: as a message of the system
\* role, as the system parameter, or within the text it sends
CarriesInstruction(r) ==
  IF "messages" \in DOMAIN r
    THEN \/ \E i \in 1..Len(r.messages) :
              r.messages[i] = [role |-> "system", content |-> sSystemPrompt]
         \/ "system" \in DOMAIN r /\ r.system = sSystemPrompt
    ELSE Includes(r.fullPrompt, sSystemPrompt)

\* the request r holds the prompt: as a message of the user role, or within
\* the text it sends
CarriesPrompt(r, prompt) ==
  IF "messages" \in DOMAIN r
    THEN \E i \in 1..Len(r.messages) :
           r.messages[i] = [role |-> "user", content |-> prompt]
    ELSE Includes(r.fullPrompt, prompt)

C25_RequestCarriesInstruction ==
  \A p \in Procs :
    inv[p].pc = "awaiting" =>
      /\ CarriesInstruction(backendRequest(provider, promptOf(inv[p])))
      /\ CarriesPrompt(backendRequest(provider, promptOf(inv[p])),
                       promptOf(inv[p]))

---------------------------------------------------------------------------
(* C26: rate-window updates are not lost under concurrency.  In every      *)
(* interleaving of the invocations in flight, when k provider calls of a   *)
(* caller have returned a text the caller's stored sequence of timestamps  *)
(* has exactly k entries, in non-decreasing order; and the cache holds one *)
(* entry for each cache key under which a text has been stored.            *)

\* the stored timestamps of caller u in the map m
Window(m, u) == IF u \in DOMAIN m THEN m[u] ELSE <<>>

NonDecreasing(w) == \A i \in 1..(Len(w) - 1) : w[i] <= w[i + 1]

\* a provider call of caller u returned a text in this step
ReturnedFor(u) ==
  \E p \in Procs :
    Completed(p) /\ ~last'.out.threw /\ last'.rateLimitKey = Some(u)

C26_NoLostUpdate ==
  [][/\ \A u \in Users :
          /\ Len(Window(rateLimiter, u)) = logOf(u).ok
          /\ Len(Window(rateLimiter', u)) = logOf(u)'.ok
          /\ NonDecreasing(Window(rateLimiter', u))
          /\ Window(rateLimiter', u) =
               IF ReturnedFor(u) THEN Append(Window(rateLimiter, u), now)
                                 ELSE Window(rateLimiter, u)
     /\ DOMAIN cache' = DOMAIN cache \cup {k \in CacheNames : StoredFor(k)}
     /\ DOMAIN cache' \subseteq CacheNames]_vars

\* two requests of caller "u1", made at time 0 under different cache keys
\* and in flight together, have both returned a text half an hour later:
\* the caller's window holds two timestamps and the cache two entries
C26_Witness ==
  /\ now = 1800000
  /\ \A p \in Procs : inv[p].pc = "idle"
  /\ logOf(sUser1) = [calls |-> 2, ok |-> 2, failed |-> 0, recent |-> <<0, 0>>]
  /\ rateLimiter = [u \in {sUser1} |-> <<1800000, 1800000>>]
  /\ DOMAIN cache = {sKeyA, sKeyB}
  /\ \A k \in CacheNames : cache[k].timestamp = 1800000

---------------------------------------------------------------------------
(* C27: when the provider call fails, generateCompletionWithCache changes  *)
(* neither the cache nor any rate window: a failed call stores nothing and *)
(* uses none of the caller's budget, so a request is rejected only when    *)
(* ten of the caller's calls have returned a text, and a caller whose      *)
(* calls keep failing is never rejected.                                   *)
C27_FailureLeavesStores ==
  [][\A p \in Procs :
       /\ (Completed(p) /\ last'.out.threw) =>
            /\ cache' = cache
            /\ rateLimiter' = rateLimiter
            /\ last'.raw = None
            /\ inv'[p].pc = "idle"
       /\ \A u \in Users :
            /\ Rejected(p, u) => logOf(u).ok >= 10
            /\ logOf(u).ok = 0 => Window(rateLimiter, u) = <<>>
            /\ \A ck \in FailingCacheKeys :
                 (Started(p, ck, u) /\ Miss(ck) /\ logOf(u).ok < 10)
                   => Admitted(p)]_vars

\* ten provider calls of caller "u1", all at time 0, have failed; nothing is
\* stored, and the caller's eleventh request is at the provider
C27_Witness ==
  /\ now = 0
  /\ inv[1].pc = "awaiting"
  /\ inv[1].rateLimitKey = Some(sUser1)
  /\ logOf(sUser1).calls = 11
  /\ logOf(sUser1).failed = 10
  /\ logOf(sUser1).ok = 0
  /\ DOMAIN rateLimiter = {}
  /\ DOMAIN cache = {}

---------------------------------------------------------------------------
(* C28: the raw completion is cached before it is parsed and validated.    *)
(* A text that a provider call returned is stored although the workflow    *)
(* fails on it, and every identical request within the TTL then fails in   *)
(* the same way without a new provider call.                               *)

\* the step finished a workflow invocation whose provider call returned a
\* text that parseAndValidateResponse does not accept
ReturnedUnusable(p) ==
  /\ Completed(p)
  /\ last'.entry = "workflow"
  /\ IsSome(last'.raw)
  /\ last'.out.threw

\* the valid entry of cache key k holds a text that the workflow fails on
UnusableCached(k) ==
  /\ Fresh(k, now)
  /\ finishBrief(Return(cache[k].data)).threw

C28_RawTextCached ==
  [][/\ \A p \in Procs :
          ReturnedUnusable(p) =>
            /\ last'.out = finishBrief(Return(The(last'.raw)))
            /\ The(last'.cacheKey) \in DOMAIN cache'
            /\ cache'[The(last'.cacheKey)] =
                 [data |-> The(last'.raw), timestamp |-> now]
     /\ \A n \in BriefInputs, u \in Users :
          (BriefStarted(n, u) /\ UnusableCached(cacheKeyOf(n, Some(u)))) =>
            /\ Answered(1)
            /\ last'.raw = Some(cache[cacheKeyOf(n, Some(u))].data)
            /\ last'.out = finishBrief(Return(cache[cacheKeyOf(n, Some(u))].data))
            /\ last'.out.threw
            /\ log' = log
            /\ cache' = cache]_vars

\* a provider call at time 0 returned a text that is not JSON; half an hour
\* later the same request has failed on the cached text, with one provider
\* call made in all
C28_Witness ==
  /\ now = 1800000
  /\ BriefFinished
  /\ last.input = 1
  /\ ~last.called
  /\ last.raw = Some(sNotJson)
  /\ last.out = Throw(sFailedToProcess)
  /\ last.after.input = 1
  /\ last.after.called
  /\ last.after.raw = sNotJson
  /\ CallsMade(log) = 1
  /\ cache[The(last.cacheKey)] = [data |-> sNotJson, timestamp |-> 0]

---------------------------------------------------------------------------
(* C29: expiry is absolute, not sliding.  A cache hit leaves the text and  *)
(* the timestamp of the entry as they are, so an entry stored at time t    *)
(* and not overwritten is a miss for every lookup at t + 1h or later,      *)
(* however many hits there were in between; and a stale entry stays in the *)
(* map until a provider call that returns a text for its key overwrites    *)
(* it.                                                                     *)

\* the step answered a request in slot p from the cache
Hit(p) == Answered(p) /\ IsSome(last'.raw)

\* the entry of cache key k is one hour old, or older
Stale(k) == k \in DOMAIN cache /\ now >= cache[k].timestamp + 3600000

C29_AbsoluteExpiry ==
  [][/\ \A k \in DOMAIN cache :
          /\ k \in DOMAIN cache'
          /\ cache'[k] # cache[k] => StoredFor(k)
     /\ \A p \in Procs : Hit(p) => cache' = cache
     /\ \A n \in BriefInputs, u \in Users :
          (BriefStarted(n, u) /\ Stale(cacheKeyOf(n, Some(u)))) =>
            /\ ~Hit(1)
            /\ Admitted(1)
            /\ cache' = cache]_vars

\* an entry stored at time 0 has answered a request since; one hour after
\* it was stored it is still in the map, and the same request has missed
\* the cache and is at the provider
C29_Witness ==
  /\ now = 3600000
  /\ inv[1].pc = "awaiting"
  /\ inv[1].entry = "workflow"
  /\ inv[1].input = 1
  /\ The(inv[1].cacheKey) \in DOMAIN cache
  /\ cache[The(inv[1].cacheKey)].timestamp = 0
  /\ done.input = 1
  /\ ~done.called
  /\ done.stored = 0
  /\ done.raw = cache[The(inv[1].cacheKey)].data

---------------------------------------------------------------------------
(* C30: cache integrity.  Whenever generateCreatorBrief is answered from   *)
(* the cache, the cached text is that of a provider call whose prompt is   *)
(* the prompt built for the present request: requests that build different *)
(* prompts do not share a cache key.                                       *)

\* a workflow invocation has just been answered from the cache, under the
\* cache key of the invocation that obtained a text before it
HitOnPrevious ==
  /\ BriefFinished
  /\ ~last.called
  /\ IsSome(last.raw)
  /\ last.after.input # 0
  /\ Some(cacheKeyOf(last.after.input, None)) = last.cacheKey
  /\ Some(last.after.raw) = last.raw

C30_CacheIntegrity ==
  HitOnPrevious => prompts[last.after.input] = prompts[last.input]
=============================================================================
